---- MODULE Spec2Model ----
(***************************************************************************)
(* Shut-the-box move table: board/roll enumeration, randomised paired      *)
(* games, weight aggregation and the best-move reduction.                  *)
(*                                                                         *)
(* Boards are u16 values whose low nine bits are the alive pieces          *)
(* (bit i = piece i+1).  Option<u16> is modelled as a natural (Some) or    *)
(* None.                                                                   *)
(***************************************************************************)
EXTENDS Integers, Sequences, FiniteSets, TLC

VARIABLES
    in_board,      \* argument of Board::new
    built,         \* the Board returned by Board::new, NoBoard before
    pc,            \* position in run_game / compute_weights
    start,         \* the board handed to run_game
    cur,           \* `board` of the rand invocation in progress
    choices,       \* `choices` of the rand invocation in progress
    drawn,         \* values produced so far by the generator seeded with rand_seed
    pos,           \* how many of them the rand in progress has consumed
    first_game,    \* (value, choices) returned by the first rand
    second_game,   \* (value, choices) returned by the second rand
    first,         \* Games of the first game
    second,        \* Games of the second game
    threads,       \* argument of compute_weights
    games_to_play, \* argument of compute_weights
    cpc,           \* position of the main thread in compute_weights
    spawned,       \* iterations done of the spawning loop
    workers,       \* per thread: its state, games played and win_weights
    chan,          \* maps sent on the channel and not yet received
    finished_threads, \* iterations done of the receiving loop
    win_weights,   \* win_weights of the main thread
    pending,       \* keys of win_weights the reduction has yet to visit
    weight_map,    \* weight_map of the reduction
    choice_map,    \* choice_map of the reduction
    file,          \* what was written to best_moves.yml, NoFile before
    spc,           \* position in the serialize / deserialize round
    serde_self,    \* the BoardRoll handed to serialize, NoBoardRoll if none
    serde_text,    \* the text written by serialize or handed to visit_str
    serde_result,  \* the Result returned by visit_str
    BOARDS,        \* the OnceLock of the board table: NoTable until set
    possible_boards, \* the Vec the initialiser of BOARDS fills
    get_arg,       \* argument of the last get_board on the table, None before
    got,           \* what that get_board returned
    dice_call,     \* the last DiceRoll constructor called and its arguments, NoCall before
    dice_roll,     \* the DiceRoll it returned
    dual_rolls,    \* the array the initialiser of DUAL_ROLLS fills
    loop_one,      \* `one` of the loops of get_rolls, 7 once they are over
    loop_two,      \* `two` of the loops of get_rolls
    once_state,    \* state of the Once of BOARDS: incomplete, running or complete
    callers,       \* per thread: its position in get_boards and what it was handed
    init_runs,     \* how many times the initialiser of BOARDS was started
    to_accept,     \* state.to_accept of the Server: the connections not yet registered
    clients,       \* clients of the Server: the registered connections
    accepted,      \* state.accepted of the Server
    previous_connected, \* state.previous_connected of the Server
    previous_ready, \* state.previous_ready of the Server
    net_step,      \* position of the Server in the loop of start
    polled,        \* what try_recv gave for each connection of to_accept in the last register_client
    outbox,        \* per connection: the messages sent on its writing channel
    loops_done,    \* iterations of the loop of start that are over
    peer,          \* the other end of the tcp stream: open, closed or reset
    wire,          \* every byte the peer has written to the stream
    read_stream,   \* the bytes written and not yet read by the reading thread
    read_data,     \* `data` of the reading thread
    read_channel,  \* what the reading thread has sent on read_sender
    read_receiver, \* read_receiver of the Channels: alive or dropped
    reading        \* the reading thread: reading or ended

vars == <<in_board, built, pc, start, cur, choices, drawn, pos,
          first_game, second_game, first, second,
          threads, games_to_play, cpc, spawned, workers, chan,
          finished_threads, win_weights, pending, weight_map, choice_map, file,
          spc, serde_self, serde_text, serde_result,
          BOARDS, possible_boards, get_arg, got,
          dice_call, dice_roll, dual_rolls, loop_one, loop_two,
          once_state, callers, init_runs,
          to_accept, clients, accepted, previous_connected, previous_ready, net_step, polled, outbox, loops_done,
          peer, wire, read_stream, read_data, read_channel, read_receiver, reading>>

enumVars == <<in_board, built>>
gameVars == <<pc, start, cur, choices, drawn, pos,
              first_game, second_game, first, second>>
computeVars == <<threads, games_to_play, cpc, spawned, workers, chan,
                 finished_threads, win_weights, pending, weight_map,
                 choice_map, file>>
serdeVars == <<spc, serde_self, serde_text, serde_result>>
readerVars == <<peer, wire, read_stream, read_data, read_channel, read_receiver, reading>>
serverVars == <<to_accept, clients, accepted, previous_connected, previous_ready, net_step, polled, outbox, loops_done>>
onceVars == <<once_state, callers, init_runs>>
diceVars == <<dice_call, dice_roll, dual_rolls, loop_one, loop_two>>
tableVars == <<BOARDS, possible_boards, get_arg, got>>

----------------------------------------------------------------------------
(* Bounds and program constants *)

\* start boards handed to run_game are 0..MaxStartBoard
MaxStartBoard == 7
\* compute_weights is called with threads in 0..MaxThreads
MaxThreads == 2
\* and with games_to_play in 0..MaxGames
MaxGames == 1

BoardCount == 512
RollTableLen == 36
WIN == 1000
DRAW == 500
LOSS == 0

None == -1
NoBoard == [board |-> None, rolls |-> <<>>]
NoGame == [value |-> None, moves |-> <<>>]
NoGames == [moves |-> <<>>, result |-> None]
NoFile == [written |-> FALSE, data |-> <<>>]
NoTable == <<>>
NoCall == [fn |-> "none"]

NoBoardRoll == [board |-> None, roll |-> None]
NotParsed == [ok |-> FALSE, value |-> None, error |-> ""]

----------------------------------------------------------------------------
(* u16 bit operations *)

Pow2(n) == 2 ^ n

Bit(x, i) == (x \div Pow2(i)) % 2

RECURSIVE BitAndFrom(_, _, _)
BitAndFrom(a, b, i) ==
    IF i >= 16 THEN 0
    ELSE Pow2(i) * Bit(a, i) * Bit(b, i) + BitAndFrom(a, b, i + 1)

BitAnd(a, b) == BitAndFrom(a, b, 0)

RECURSIVE BitOrFrom(_, _, _)
BitOrFrom(a, b, i) ==
    IF i >= 16 THEN 0
    ELSE Pow2(i) * (IF Bit(a, i) = 1 \/ Bit(b, i) = 1 THEN 1 ELSE 0)
         + BitOrFrom(a, b, i + 1)

BitOr(a, b) == BitOrFrom(a, b, 0)

BitNot(a) == 65535 - a

RECURSIVE count_ones_from(_, _)
count_ones_from(x, i) ==
    IF i >= 16 THEN 0 ELSE Bit(x, i) + count_ones_from(x, i + 1)

count_ones(x) == count_ones_from(x, 0)

RECURSIVE leading_zeros_from(_, _)
leading_zeros_from(x, i) ==
    IF i < 0 THEN 0
    ELSE IF Bit(x, i) = 1 THEN 0
    ELSE 1 + leading_zeros_from(x, i - 1)

leading_zeros(x) == leading_zeros_from(x, 15)

----------------------------------------------------------------------------
(* Reference notions used to state the properties *)

AlivePieces(b) == {p \in 1..16 : Bit(b, p - 1) = 1}

RECURSIVE SetSum(_)
SetSum(S) ==
    IF S = {} THEN 0
    ELSE LET x == CHOOSE y \in S : TRUE IN x + SetSum(S \ {x})

MaskOf(S) == SetSum({Pow2(p - 1) : p \in S})

Range(s) == {s[i] : i \in 1..Len(s)}

----------------------------------------------------------------------------
(* Roll: enumeration of the boards a roll can lead to *)

RECURSIVE pieces_from(_, _, _)
pieces_from(alive_pieces, index, max_iterations) ==
    IF index >= max_iterations THEN <<>>
    ELSE (IF Bit(alive_pieces, index) # 0 THEN <<index + 1>> ELSE <<>>)
         \o pieces_from(alive_pieces, index + 1, max_iterations)

pieces(alive_pieces) ==
    pieces_from(alive_pieces, 0, 16 - leading_zeros(alive_pieces))

RECURSIVE sum_move_from(_, _, _)
sum_move_from(move_to_sum, alive_pieces, piece_index) ==
    IF piece_index >= Len(alive_pieces) THEN 0
    ELSE (IF Bit(move_to_sum, piece_index) = 1
          THEN alive_pieces[piece_index + 1] ELSE 0)
         + sum_move_from(move_to_sum, alive_pieces, piece_index + 1)

sum_move(move_to_sum, alive_pieces) ==
    sum_move_from(move_to_sum, alive_pieces, 0)

\* mutant: the kept pieces are placed at their list position, not at their number
RECURSIVE preform_move_by_index_from(_, _, _, _)
preform_move_by_index_from(move_to_perform, alive_pieces, piece_index, resultant_board) ==
    IF piece_index >= Len(alive_pieces) THEN resultant_board
    ELSE preform_move_by_index_from(move_to_perform, alive_pieces, piece_index + 1,
            IF Bit(move_to_perform, piece_index) # 1
            THEN BitOr(resultant_board, Pow2(piece_index))
            ELSE resultant_board)

preform_move_by_index(move_to_perform, alive_pieces) ==
    preform_move_by_index_from(move_to_perform, alive_pieces, 0, 0)

\* mutant: the move is ignored, every piece of the board is kept
preform_move_keep(move_to_perform, alive_pieces) ==
    SetSum({Pow2(alive_pieces[i] - 1) : i \in 1..Len(alive_pieces)})

\* mutant: the test is inverted, the killed pieces are the ones set
RECURSIVE preform_move_inverted_from(_, _, _, _)
preform_move_inverted_from(move_to_perform, alive_pieces, piece_index, resultant_board) ==
    IF piece_index >= Len(alive_pieces) THEN resultant_board
    ELSE preform_move_inverted_from(move_to_perform, alive_pieces, piece_index + 1,
            IF Bit(move_to_perform, piece_index) = 1
            THEN BitOr(resultant_board, Pow2(alive_pieces[piece_index + 1] - 1))
            ELSE resultant_board)

preform_move_inverted(move_to_perform, alive_pieces) ==
    preform_move_inverted_from(move_to_perform, alive_pieces, 0, 0)

RECURSIVE preform_move_from(_, _, _, _)
preform_move_from(move_to_perform, alive_pieces, piece_index, resultant_board) ==
    IF piece_index >= Len(alive_pieces) THEN resultant_board
    ELSE preform_move_from(move_to_perform, alive_pieces, piece_index + 1,
            IF Bit(move_to_perform, piece_index) # 1
            THEN BitOr(resultant_board, Pow2(alive_pieces[piece_index + 1] - 1))
            ELSE resultant_board)

preform_move(move_to_perform, alive_pieces) ==
    preform_move_from(move_to_perform, alive_pieces, 0, 0)

\* the loop of Roll::new over unique_board..unique_board_amount - 1, in
\* ascending order; the range is halved to keep the evaluation shallow
RECURSIVE Roll_new_from(_, _, _, _)
Roll_new_from(rolled_value, numeric_board, unique_board, unique_board_amount) ==
    IF unique_board >= unique_board_amount THEN <<>>
    ELSE IF unique_board + 1 = unique_board_amount
    THEN (IF sum_move(unique_board, numeric_board) # rolled_value THEN <<>>
          ELSE <<preform_move(unique_board, numeric_board)>>)
    ELSE LET middle == (unique_board + unique_board_amount) \div 2
         IN Roll_new_from(rolled_value, numeric_board, unique_board, middle)
                \o Roll_new_from(rolled_value, numeric_board, middle,
                                 unique_board_amount)

\* mutant: the loop stops one short and never tries the move killing every piece
Roll_new_short(rolled_value, board) ==
    [roll_value |-> rolled_value,
     boards |-> Roll_new_from(rolled_value, pieces(board), 1,
                              Pow2(count_ones(board)) - 1)]

Roll_new(rolled_value, board) ==
    [roll_value |-> rolled_value,
     boards |-> Roll_new_from(rolled_value, pieces(board), 1,
                              Pow2(count_ones(board)))]

----------------------------------------------------------------------------
(* Board: a board and its eleven rolls *)

Board_new(board) ==
    [board |-> board,
     rolls |-> [k \in 1..11 |-> Roll_new(k + 1, board)]]

\* the entry of the table of get_boards at an index, None out of bounds;
\* the table holds Board::new(index) at every index below 512
get_board(binary_board) ==
    IF binary_board < BoardCount THEN Board_new(binary_board) ELSE NoBoard

\* mutant: the second slot of the table selects the roll 2 as well
POSSIBLE_ROLLS_INDEXES_skewed ==
    <<0, 0, 1, 2, 2, 2, 3, 3, 3, 3, 4, 4, 4, 4, 4, 5, 5, 5, 5, 5, 5,
      6, 6, 6, 6, 6, 7, 7, 7, 7, 8, 8, 8, 9, 9, 10>>

POSSIBLE_ROLLS_INDEXES ==
    <<0, 1, 1, 2, 2, 2, 3, 3, 3, 3, 4, 4, 4, 4, 4, 5, 5, 5, 5, 5, 5,
      6, 6, 6, 6, 6, 7, 7, 7, 7, 8, 8, 8, 9, 9, 10>>

get_rand_roll(board, index) ==
    board.rolls[POSSIBLE_ROLLS_INDEXES[index + 1] + 1]

\* mutant: the index is drawn in ..len - 1 and never selects the last board
Roll_get_rand_board_short(roll) ==
    IF Len(roll.boards) = 0 THEN {None}
    ELSE {roll.boards[index + 1] : index \in 0..(Len(roll.boards) - 2)}

\* the outcomes of Roll::get_rand_board: None, or any board of the roll
Roll_get_rand_board(roll) ==
    IF Len(roll.boards) = 0 THEN {None}
    ELSE {roll.boards[index + 1] : index \in 0..(Len(roll.boards) - 1)}

\* mutant: the index is added instead of the piece number
RECURSIVE calculate_value_by_index_from(_, _)
calculate_value_by_index_from(board, index) ==
    IF index >= 9 THEN 0
    ELSE (IF Bit(board, index) = 1 THEN index ELSE 0)
         + calculate_value_by_index_from(board, index + 1)

calculate_value_by_index(board) == calculate_value_by_index_from(board.board, 0)

RECURSIVE calculate_value_from(_, _)
calculate_value_from(board, index) ==
    IF index >= 9 THEN 0
    ELSE (IF Bit(board, index) = 1 THEN index + 1 ELSE 0)
         + calculate_value_from(board, index + 1)

calculate_value(board) == calculate_value_from(board.board, 0)

get_raw(board) == board.board

----------------------------------------------------------------------------
(* Enumeration: Board::new applied to any of the 512 boards *)

InitGameIdle ==
    /\ pc = "idle"
    /\ start = None
    /\ cur = None
    /\ choices = <<>>
    /\ drawn = <<>>
    /\ pos = 0
    /\ first_game = NoGame
    /\ second_game = NoGame
    /\ first = NoGames
    /\ second = NoGames

InitComputeIdle ==
    /\ threads = 0
    /\ games_to_play = 0
    /\ cpc = "idle"
    /\ spawned = 0
    /\ workers = <<>>
    /\ chan = <<>>
    /\ finished_threads = 0
    /\ win_weights = <<>>
    /\ pending = {}
    /\ weight_map = <<>>
    /\ choice_map = <<>>
    /\ file = NoFile

InitSerdeIdle ==
    /\ spc = "idle"
    /\ serde_self = NoBoardRoll
    /\ serde_text = <<>>
    /\ serde_result = NotParsed

InitTableIdle ==
    /\ BOARDS = NoTable
    /\ possible_boards = <<>>
    /\ get_arg = None
    /\ got = NoBoard

InitDiceIdle ==
    /\ dice_call = NoCall
    /\ dice_roll = None
    /\ dual_rolls = <<>>
    /\ loop_one = 0
    /\ loop_two = 0

InitOnceIdle ==
    /\ once_state = "incomplete"
    /\ callers = <<>>
    /\ init_runs = 0

InitServerIdle ==
    /\ to_accept = <<>>
    /\ clients = <<>>
    /\ accepted = <<>>
    /\ previous_connected = 0
    /\ previous_ready = 0
    /\ net_step = "idle"
    /\ polled = <<>>
    /\ outbox = <<>>
    /\ loops_done = 0

InitReaderIdle ==
    /\ peer = "idle"
    /\ wire = <<>>
    /\ read_stream = <<>>
    /\ read_data = <<>>
    /\ read_channel = <<>>
    /\ read_receiver = "idle"
    /\ reading = "idle"

InitEnumIdle ==
    /\ in_board = None
    /\ built = NoBoard

InitRoll ==
    /\ in_board \in 0..(BoardCount - 1)
    /\ built = NoBoard
    /\ InitGameIdle
    /\ InitComputeIdle
    /\ InitSerdeIdle
    /\ InitTableIdle
    /\ InitDiceIdle
    /\ InitOnceIdle
    /\ InitServerIdle
    /\ InitReaderIdle

NewBoard ==
    /\ built = NoBoard
    /\ built' = Board_new(in_board)
    /\ UNCHANGED <<in_board>>
    /\ UNCHANGED gameVars
    /\ UNCHANGED computeVars
    /\ UNCHANGED serdeVars
    /\ UNCHANGED tableVars
    /\ UNCHANGED diceVars
    /\ UNCHANGED onceVars
    /\ UNCHANGED serverVars
    /\ UNCHANGED readerVars

NextRoll == NewBoard

SpecRoll == InitRoll /\ [][NextRoll]_vars

----------------------------------------------------------------------------
(* The board table: BOARDS is set once, by the initialiser of get_boards,
   and read by get_board *)

\* get_board is called with an index in 0..MaxGetIndex
MaxGetIndex == 514

\* <[Board]>::get: the element at the index, None out of bounds
slice_get(boards, index) ==
    IF index < Len(boards) THEN boards[index + 1] ELSE NoBoard

InitTable ==
    /\ InitTableIdle
    /\ InitEnumIdle
    /\ InitGameIdle
    /\ InitComputeIdle
    /\ InitSerdeIdle
    /\ InitDiceIdle
    /\ InitOnceIdle
    /\ InitServerIdle
    /\ InitReaderIdle

\* mutant: the loop of the initialiser runs over 1..513
PushBoardFromOne ==
    /\ BOARDS = NoTable
    /\ Len(possible_boards) < BoardCount
    /\ possible_boards' =
            Append(possible_boards, Board_new(Len(possible_boards) + 1))
    /\ UNCHANGED <<BOARDS, get_arg, got>>
    /\ UNCHANGED <<enumVars, gameVars, computeVars, serdeVars>>
    /\ UNCHANGED diceVars
    /\ UNCHANGED onceVars
    /\ UNCHANGED serverVars
    /\ UNCHANGED readerVars

\* one iteration of the loop of the initialiser: index is the number of
\* boards pushed so far
PushBoard ==
    /\ BOARDS = NoTable
    /\ Len(possible_boards) < BoardCount
    /\ possible_boards' =
            Append(possible_boards, Board_new(Len(possible_boards)))
    /\ UNCHANGED <<BOARDS, get_arg, got>>
    /\ UNCHANGED <<enumVars, gameVars, computeVars, serdeVars>>
    /\ UNCHANGED diceVars
    /\ UNCHANGED onceVars
    /\ UNCHANGED serverVars
    /\ UNCHANGED readerVars

\* the loop is over: the Vec becomes the value of BOARDS
SetBoards ==
    /\ BOARDS = NoTable
    /\ Len(possible_boards) = BoardCount
    /\ BOARDS' = possible_boards
    /\ UNCHANGED <<possible_boards, get_arg, got>>
    /\ UNCHANGED <<enumVars, gameVars, computeVars, serdeVars>>
    /\ UNCHANGED diceVars
    /\ UNCHANGED onceVars
    /\ UNCHANGED serverVars
    /\ UNCHANGED readerVars

\* get_board on the table that was set
GetBoard ==
    /\ BOARDS # NoTable
    /\ get_arg = None
    /\ \E binary_board \in 0..MaxGetIndex :
        /\ get_arg' = binary_board
        /\ got' = slice_get(BOARDS, binary_board)
    /\ UNCHANGED <<BOARDS, possible_boards>>
    /\ UNCHANGED <<enumVars, gameVars, computeVars, serdeVars>>
    /\ UNCHANGED diceVars
    /\ UNCHANGED onceVars
    /\ UNCHANGED serverVars
    /\ UNCHANGED readerVars

NextTable == PushBoard \/ SetBoards \/ GetBoard

SpecTable == InitTable /\ [][NextTable]_vars

----------------------------------------------------------------------------
(* get_boards called by several threads: OnceLock::get_or_init runs one
   initialiser, blocks the callers that arrive while it runs, and hands
   every caller a reference to the value that was set *)

Caller(at, blocked, len) == [at |-> at, blocked |-> blocked, len |-> len]

InitOnce ==
    /\ once_state = "incomplete"
    /\ callers = [t \in 1..MaxThreads |-> Caller("idle", FALSE, None)]
    /\ init_runs = 0
    /\ InitTableIdle
    /\ InitEnumIdle
    /\ InitGameIdle
    /\ InitComputeIdle
    /\ InitSerdeIdle
    /\ InitDiceIdle
    /\ InitServerIdle
    /\ InitReaderIdle

\* the value is set: the caller returns a reference to it
OnceGet(t) ==
    /\ callers[t].at = "idle"
    /\ once_state = "complete"
    /\ callers' = [callers EXCEPT ![t] = Caller("returned", FALSE, Len(BOARDS))]
    /\ UNCHANGED <<once_state, init_runs>>
    /\ UNCHANGED tableVars
    /\ UNCHANGED <<enumVars, gameVars, computeVars, serdeVars, diceVars>>
    /\ UNCHANGED serverVars
    /\ UNCHANGED readerVars

\* mutant: a caller starts the initialiser while another one runs it
OnceBeginAgain(t) ==
    /\ callers[t].at = "idle"
    /\ once_state # "complete"
    /\ once_state' = "running"
    /\ init_runs' = init_runs + 1
    /\ callers' = [callers EXCEPT ![t] = Caller("init", FALSE, None)]
    /\ UNCHANGED tableVars
    /\ UNCHANGED <<enumVars, gameVars, computeVars, serdeVars, diceVars>>
    /\ UNCHANGED serverVars
    /\ UNCHANGED readerVars

\* no value and no initialiser running: the caller runs the closure
OnceBegin(t) ==
    /\ callers[t].at = "idle"
    /\ once_state = "incomplete"
    /\ once_state' = "running"
    /\ init_runs' = init_runs + 1
    /\ callers' = [callers EXCEPT ![t] = Caller("init", FALSE, None)]
    /\ UNCHANGED tableVars
    /\ UNCHANGED <<enumVars, gameVars, computeVars, serdeVars, diceVars>>
    /\ UNCHANGED serverVars
    /\ UNCHANGED readerVars

\* another caller runs the closure: the caller blocks
OnceWait(t) ==
    /\ callers[t].at = "idle"
    /\ once_state = "running"
    /\ callers' = [callers EXCEPT ![t] = Caller("waiting", TRUE, None)]
    /\ UNCHANGED <<once_state, init_runs>>
    /\ UNCHANGED tableVars
    /\ UNCHANGED <<enumVars, gameVars, computeVars, serdeVars, diceVars>>
    /\ UNCHANGED serverVars
    /\ UNCHANGED readerVars

\* one iteration of the loop of the closure, on its own Vec
OncePush(t) ==
    /\ callers[t].at = "init"
    /\ Len(possible_boards) < BoardCount
    /\ possible_boards' =
            Append(possible_boards, Board_new(Len(possible_boards)))
    /\ UNCHANGED <<BOARDS, get_arg, got>>
    /\ UNCHANGED onceVars
    /\ UNCHANGED <<enumVars, gameVars, computeVars, serdeVars, diceVars>>
    /\ UNCHANGED serverVars
    /\ UNCHANGED readerVars

\* the closure returns: its Vec becomes the value and the caller returns
OnceSet(t) ==
    /\ callers[t].at = "init"
    /\ Len(possible_boards) = BoardCount
    /\ BOARDS' = possible_boards
    /\ once_state' = "complete"
    /\ callers' = [callers EXCEPT
                      ![t] = Caller("returned", FALSE, Len(possible_boards))]
    /\ UNCHANGED <<possible_boards, get_arg, got>>
    /\ UNCHANGED init_runs
    /\ UNCHANGED <<enumVars, gameVars, computeVars, serdeVars, diceVars>>
    /\ UNCHANGED serverVars
    /\ UNCHANGED readerVars

\* a blocked caller is woken once the value is set
OnceWake(t) ==
    /\ callers[t].at = "waiting"
    /\ once_state = "complete"
    /\ callers' = [callers EXCEPT ![t] = Caller("returned", TRUE, Len(BOARDS))]
    /\ UNCHANGED <<once_state, init_runs>>
    /\ UNCHANGED tableVars
    /\ UNCHANGED <<enumVars, gameVars, computeVars, serdeVars, diceVars>>
    /\ UNCHANGED serverVars
    /\ UNCHANGED readerVars

NextOnce ==
    \E t \in 1..MaxThreads :
        \/ OnceGet(t)
        \/ OnceBegin(t)
        \/ OnceWait(t)
        \/ OncePush(t)
        \/ OnceSet(t)
        \/ OnceWake(t)

SpecOnce == InitOnce /\ [][NextOnce]_vars

----------------------------------------------------------------------------
(* rand and run_game: two games from one board, one seed for the rolls of
   both, a generator of its own for the boards of each *)

\* mutant: the generator of the second game is built from another seed and
\* gives another value at every position
roll_rng_reseeded(seed_drawn, consumed) ==
    IF consumed < Len(seed_drawn)
    THEN {(seed_drawn[consumed + 1] + 1) % RollTableLen}
    ELSE 0..(RollTableLen - 1)

\* What the generator built by Rng::with_seed(rand_seed) can return for its
\* draw number consumed + 1 in usize(..36): the value the same seed gave
\* before at that position, any value the first time.
roll_rng(seed_drawn, consumed) ==
    IF consumed < Len(seed_drawn) THEN {seed_drawn[consumed + 1]}
    ELSE 0..(RollTableLen - 1)

\* the values the generator has given once draw number consumed + 1 is index
roll_rng_after(seed_drawn, consumed, index) ==
    IF consumed < Len(seed_drawn) THEN seed_drawn ELSE Append(seed_drawn, index)

Choice(root_board, roll, chosen_board) ==
    [root_board |-> root_board, roll |-> roll, chosen_board |-> chosen_board]

is_dying_choice(choice) == choice.chosen_board = None

\* mutant: the Choice takes its root from the board moved to
rand_call_late_root(binary_board, index) ==
    LET board == get_board(binary_board)
        rand_roll == get_rand_roll(board, index)
    IN {[choice |-> Choice(IF rand_board = None THEN get_raw(board)
                           ELSE rand_board,
                           rand_roll.roll_value, rand_board),
         value |-> calculate_value(board)] :
            rand_board \in Roll_get_rand_board(rand_roll)}

\* One invocation of rand on a board, with index the draw of the roll
\* generator: the Choice it pushes for each board the board generator can
\* pick, and the value it returns if the Choice is a dying one.
rand_call(binary_board, index) ==
    LET board == get_board(binary_board)
        rand_roll == get_rand_roll(board, index)
    IN {[choice |-> Choice(get_raw(board), rand_roll.roll_value, rand_board),
         value |-> calculate_value(board)] :
            rand_board \in Roll_get_rand_board(rand_roll)}

\* mutant: the first comparison is >= and takes the equal values too
run_game_results_ge(first_value, second_value) ==
    [first |-> IF first_value >= second_value THEN WIN
               ELSE IF second_value > first_value THEN LOSS ELSE DRAW,
     second |-> IF first_value >= second_value THEN LOSS
                ELSE IF second_value > first_value THEN WIN ELSE DRAW]

\* the results run_game assigns to the two games from their final values
run_game_results(first_value, second_value) ==
    [first |-> IF first_value > second_value THEN WIN
               ELSE IF second_value > first_value THEN LOSS ELSE DRAW,
     second |-> IF first_value > second_value THEN LOSS
                ELSE IF second_value > first_value THEN WIN ELSE DRAW]

InitGame ==
    /\ start \in 0..MaxStartBoard
    /\ pc = "one"
    /\ cur = start
    /\ choices = <<>>
    /\ drawn = <<>>
    /\ pos = 0
    /\ first_game = NoGame
    /\ second_game = NoGame
    /\ first = NoGames
    /\ second = NoGames
    /\ InitEnumIdle
    /\ InitComputeIdle
    /\ InitSerdeIdle
    /\ InitTableIdle
    /\ InitDiceIdle
    /\ InitOnceIdle
    /\ InitServerIdle
    /\ InitReaderIdle

\* one invocation of rand whose roll has a board: push the choice, recurse
RandSome ==
    /\ pc \in {"one", "two"}
    /\ get_board(cur).board # None
    /\ \E index \in roll_rng(drawn, pos) :
        \E call \in rand_call(cur, index) :
            /\ ~is_dying_choice(call.choice)
            /\ choices' = Append(choices, call.choice)
            /\ cur' = call.choice.chosen_board
            /\ drawn' = roll_rng_after(drawn, pos, index)
            /\ pos' = pos + 1
    /\ UNCHANGED <<pc, start, first_game, second_game, first, second>>
    /\ UNCHANGED enumVars
    /\ UNCHANGED computeVars
    /\ UNCHANGED serdeVars
    /\ UNCHANGED tableVars
    /\ UNCHANGED diceVars
    /\ UNCHANGED onceVars
    /\ UNCHANGED serverVars
    /\ UNCHANGED readerVars

\* one invocation of rand whose roll has no board: push the dying choice and
\* return the value of the board; run_game then starts the second game or
\* goes on to the scoring
RandNone ==
    /\ pc \in {"one", "two"}
    /\ get_board(cur).board # None
    /\ \E index \in roll_rng(drawn, pos) :
        \E call \in rand_call(cur, index) :
            LET returned == [value |-> call.value,
                             moves |-> Append(choices, call.choice)]
            IN /\ is_dying_choice(call.choice)
               /\ drawn' = roll_rng_after(drawn, pos, index)
               /\ IF pc = "one"
                  THEN /\ first_game' = returned
                       /\ pc' = "two"
                       /\ UNCHANGED second_game
                  ELSE /\ second_game' = returned
                       /\ pc' = "score"
                       /\ UNCHANGED first_game
    /\ cur' = start
    /\ choices' = <<>>
    /\ pos' = 0
    /\ UNCHANGED <<start, first, second>>
    /\ UNCHANGED enumVars
    /\ UNCHANGED computeVars
    /\ UNCHANGED serdeVars
    /\ UNCHANGED tableVars
    /\ UNCHANGED diceVars
    /\ UNCHANGED onceVars
    /\ UNCHANGED serverVars
    /\ UNCHANGED readerVars

\* the end of run_game: wrap the two games and assign their results
Score ==
    /\ pc = "score"
    /\ LET results == run_game_results(first_game.value, second_game.value)
       IN /\ first' = [moves |-> first_game.moves, result |-> results.first]
          /\ second' = [moves |-> second_game.moves, result |-> results.second]
    /\ pc' = "scored"
    /\ UNCHANGED <<start, cur, choices, drawn, pos, first_game, second_game>>
    /\ UNCHANGED enumVars
    /\ UNCHANGED computeVars
    /\ UNCHANGED serdeVars
    /\ UNCHANGED tableVars
    /\ UNCHANGED diceVars
    /\ UNCHANGED onceVars
    /\ UNCHANGED serverVars
    /\ UNCHANGED readerVars

NextGame == RandSome \/ RandNone \/ Score

SpecGame == InitGame /\ [][NextGame]_vars

----------------------------------------------------------------------------
(* compute_weights: worker threads simulate pairs of games into maps of
   their own, the main thread merges the maps it receives and reduces the
   merged map to the best move of every board and roll *)

U16 == 65536

Weight(total, used) == [total |-> total, used |-> used]

\* total and used are u32: with at most MaxThreads * MaxGames pairs of games
\* the sums stay below 2^32 and no addition wraps
inc(weight, amount) == Weight(weight.total + amount, weight.used + 1)

\* mutant: the counts of the two weights are not added
combine_total_only(weight, other) ==
    Weight(weight.total + other.total, weight.used)

combine(weight, other) ==
    Weight(weight.total + other.total, weight.used + other.used)

calculate(weight) == (weight.total \div weight.used) % U16

BoardRoll(board, roll) == [board |-> board, roll |-> roll]

\* every (value, choices) a call of rand can return, with the values the
\* roll generator has given by then
RECURSIVE rand(_, _, _, _)
rand(binary_board, pushed, seed_drawn, consumed) ==
    UNION {
        UNION {
            IF is_dying_choice(call.choice)
            THEN {[value |-> call.value,
                   moves |-> Append(pushed, call.choice),
                   drawn |-> roll_rng_after(seed_drawn, consumed, index)]}
            ELSE rand(call.choice.chosen_board,
                      Append(pushed, call.choice),
                      roll_rng_after(seed_drawn, consumed, index),
                      consumed + 1)
            : call \in rand_call(binary_board, index)}
        : index \in roll_rng(seed_drawn, consumed)}

\* every pair of Games a call of run_game can return
run_game(binary_board) ==
    UNION {
        {LET results == run_game_results(first_rand.value, second_rand.value)
         IN <<[moves |-> first_rand.moves, result |-> results.first],
              [moves |-> second_rand.moves, result |-> results.second]>>
            : second_rand \in rand(binary_board, <<>>, first_rand.drawn, 0)}
        : first_rand \in rand(binary_board, <<>>, <<>>, 0)}

\* run_game on each of the boards get_rand_board may hand to it
run_game_from == [binary_board \in 0..MaxStartBoard |-> run_game(binary_board)]

\* mutant: the moves that caused a death are entered like the others
RECURSIVE update_weights_all(_, _, _)
update_weights_all(moves, value, weights) ==
    IF moves = <<>> THEN weights
    ELSE LET game_move == Head(moves)
         IN update_weights_all(Tail(moves), value,
                IF game_move \notin DOMAIN weights
                THEN (game_move :> Weight(value, 1)) @@ weights
                ELSE [weights EXCEPT ![game_move] = inc(@, value)])

\* mutant: a move chosen before gets a new weight instead of an increment
RECURSIVE update_weights_overwrite(_, _, _)
update_weights_overwrite(moves, value, weights) ==
    IF moves = <<>> THEN weights
    ELSE LET game_move == Head(moves)
         IN update_weights_overwrite(Tail(moves), value,
                IF is_dying_choice(game_move) THEN weights
                ELSE (game_move :> Weight(value, 1)) @@ weights)

RECURSIVE update_weights(_, _, _)
update_weights(moves, value, weights) ==
    IF moves = <<>> THEN weights
    ELSE LET game_move == Head(moves)
         IN update_weights(Tail(moves), value,
                IF is_dying_choice(game_move) THEN weights
                ELSE IF game_move \notin DOMAIN weights
                     THEN (game_move :> Weight(value, 1)) @@ weights
                     ELSE [weights EXCEPT ![game_move] = inc(@, value)])

\* mutant: a key the main map already has takes the weight of the received
\* map instead of the combined one
merge_thread_map_overwrite(thread_map, weights) ==
    [choice \in DOMAIN weights \cup DOMAIN thread_map |->
        IF choice \in DOMAIN thread_map THEN thread_map[choice]
        ELSE weights[choice]]

\* the merge loop over the keys of a received map
merge_thread_map(thread_map, weights) ==
    [choice \in DOMAIN weights \cup DOMAIN thread_map |->
        IF choice \notin DOMAIN weights THEN thread_map[choice]
        ELSE IF choice \notin DOMAIN thread_map THEN weights[choice]
        ELSE combine(weights[choice], thread_map[choice])]

\* mutant: a candidate whose average is 0 is never recorded
reduce_visit_positive(maps, choice, weights) ==
    LET win_average == calculate(weights[choice])
        board_roll == BoardRoll(choice.root_board, choice.roll)
    IN IF \/ win_average = 0
          \/ /\ board_roll \in DOMAIN maps.weight_map
             /\ maps.weight_map[board_roll] < win_average
       THEN maps
       ELSE [weight_map |-> (board_roll :> win_average) @@ maps.weight_map,
             choice_map |-> (board_roll :> choice.chosen_board) @@ maps.choice_map]

\* mutant: the board moved from is recorded as the move
reduce_visit_root(maps, choice, weights) ==
    LET win_average == calculate(weights[choice])
        board_roll == BoardRoll(choice.root_board, choice.roll)
    IN IF /\ board_roll \in DOMAIN maps.weight_map
          /\ maps.weight_map[board_roll] < win_average
       THEN maps
       ELSE [weight_map |-> (board_roll :> win_average) @@ maps.weight_map,
             choice_map |-> (board_roll :> choice.root_board) @@ maps.choice_map]

\* the body of the reduction loop for one key of win_weights
reduce_visit(maps, choice, weights) ==
    LET win_average == calculate(weights[choice])
        board_roll == BoardRoll(choice.root_board, choice.roll)
    IN IF /\ board_roll \in DOMAIN maps.weight_map
          /\ maps.weight_map[board_roll] < win_average
       THEN maps
       ELSE [weight_map |-> (board_roll :> win_average) @@ maps.weight_map,
             choice_map |-> (board_roll :> choice.chosen_board) @@ maps.choice_map]

Worker(state, played, weights) ==
    [state |-> state, played |-> played, win_weights |-> weights]

Init ==
    /\ threads \in 0..MaxThreads
    /\ games_to_play \in 0..MaxGames
    /\ cpc = "main"
    /\ spawned = 0
    /\ workers = [t \in 1..threads |-> Worker("unspawned", 0, <<>>)]
    /\ chan = <<>>
    /\ finished_threads = 0
    /\ win_weights = <<>>
    /\ pending = {}
    /\ weight_map = <<>>
    /\ choice_map = <<>>
    /\ file = NoFile
    /\ InitEnumIdle
    /\ InitGameIdle
    /\ InitSerdeIdle
    /\ InitTableIdle
    /\ InitDiceIdle
    /\ InitOnceIdle
    /\ InitServerIdle
    /\ InitReaderIdle

\* one iteration of the spawning loop
Spawn ==
    /\ cpc = "main"
    /\ spawned < threads
    /\ spawned' = spawned + 1
    /\ workers' = [workers EXCEPT ![spawned + 1].state = "running"]
    /\ UNCHANGED <<threads, games_to_play, cpc, chan, finished_threads,
                   win_weights, pending, weight_map, choice_map, file>>
    /\ UNCHANGED <<enumVars, gameVars>>
    /\ UNCHANGED serdeVars
    /\ UNCHANGED tableVars
    /\ UNCHANGED diceVars
    /\ UNCHANGED onceVars
    /\ UNCHANGED serverVars
    /\ UNCHANGED readerVars

\* what the initialiser of BOARDS returns, cut to the boards the games of
\* the model start from
get_boards_init == [index \in 1..(MaxStartBoard + 1) |-> Board_new(index - 1)]

\* the first get_boards(): a worker entering an iteration of its loop finds
\* BOARDS unset and runs the initialiser; get_or_init lets no other caller
\* through before the value is set
GetOrInit(t) ==
    /\ workers[t].state = "running"
    /\ workers[t].played < games_to_play
    /\ BOARDS = NoTable
    /\ BOARDS' = get_boards_init
    /\ UNCHANGED <<possible_boards, get_arg, got>>
    /\ UNCHANGED computeVars
    /\ UNCHANGED <<enumVars, gameVars, serdeVars>>
    /\ UNCHANGED diceVars
    /\ UNCHANGED onceVars
    /\ UNCHANGED serverVars
    /\ UNCHANGED readerVars

\* mutant: the board is taken without going through get_or_init
WorkerGameUnsynchronised(t) ==
    /\ workers[t].state = "running"
    /\ workers[t].played < games_to_play
    /\ \E binary_board \in 0..MaxStartBoard :
        \E games \in run_game_from[binary_board] :
            LET game_one == games[1]
                game_two == games[2]
                one == game_one.result
                two == game_two.result
            IN workers' = [workers EXCEPT
                    ![t].played = @ + 1,
                    ![t].win_weights =
                        update_weights(game_two.moves, two,
                            update_weights(game_one.moves, one, @))]
    /\ UNCHANGED <<threads, games_to_play, cpc, spawned, chan, finished_threads,
                   win_weights, pending, weight_map, choice_map, file>>
    /\ UNCHANGED <<enumVars, gameVars>>
    /\ UNCHANGED serdeVars
    /\ UNCHANGED tableVars
    /\ UNCHANGED diceVars
    /\ UNCHANGED onceVars
    /\ UNCHANGED serverVars
    /\ UNCHANGED readerVars

\* one iteration of a worker's loop: a pair of games from a random board of
\* the table, both games entered into the worker's map
WorkerGame(t) ==
    /\ workers[t].state = "running"
    /\ workers[t].played < games_to_play
    /\ BOARDS # NoTable
    /\ \E board \in Range(BOARDS) :
        \E games \in run_game_from[get_raw(board)] :
            LET game_one == games[1]
                game_two == games[2]
                one == game_one.result
                two == game_two.result
            IN workers' = [workers EXCEPT
                    ![t].played = @ + 1,
                    ![t].win_weights =
                        update_weights(game_two.moves, two,
                            update_weights(game_one.moves, one, @))]
    /\ UNCHANGED <<threads, games_to_play, cpc, spawned, chan, finished_threads,
                   win_weights, pending, weight_map, choice_map, file>>
    /\ UNCHANGED <<enumVars, gameVars>>
    /\ UNCHANGED serdeVars
    /\ UNCHANGED tableVars
    /\ UNCHANGED diceVars
    /\ UNCHANGED onceVars
    /\ UNCHANGED serverVars
    /\ UNCHANGED readerVars

\* a worker's closure unwinds inside an iteration of its loop and never
\* reaches its send: the u32 additions of Weight::inc overflow after enough
\* games in a build that checks overflow.  The widths are not modelled, the
\* unwinding is open in every iteration.  The worker's clone of the sender
\* is dropped with its map.
WorkerPanic(t) ==
    /\ workers[t].state = "running"
    /\ workers[t].played < games_to_play
    /\ workers' = [workers EXCEPT ![t].state = "panicked"]
    /\ UNCHANGED <<threads, games_to_play, cpc, spawned, chan, finished_threads,
                   win_weights, pending, weight_map, choice_map, file>>
    /\ UNCHANGED <<enumVars, gameVars>>
    /\ UNCHANGED serdeVars
    /\ UNCHANGED tableVars
    /\ UNCHANGED diceVars
    /\ UNCHANGED onceVars
    /\ UNCHANGED serverVars
    /\ UNCHANGED readerVars

\* mutant: the worker sends its map without finishing its loop
WorkerSendEarly(t) ==
    /\ workers[t].state = "running"
    /\ workers[t].played <= games_to_play
    /\ chan' = Append(chan, workers[t].win_weights)
    /\ workers' = [workers EXCEPT ![t].state = "sent"]
    /\ UNCHANGED <<threads, games_to_play, cpc, spawned, finished_threads,
                   win_weights, pending, weight_map, choice_map, file>>
    /\ UNCHANGED <<enumVars, gameVars>>
    /\ UNCHANGED serdeVars
    /\ UNCHANGED tableVars
    /\ UNCHANGED diceVars
    /\ UNCHANGED onceVars
    /\ UNCHANGED serverVars
    /\ UNCHANGED readerVars

\* mutant: the worker ends without sending its map
WorkerSendDropped(t) ==
    /\ workers[t].state = "running"
    /\ workers[t].played = games_to_play
    /\ workers' = [workers EXCEPT ![t].state = "sent"]
    /\ UNCHANGED <<threads, games_to_play, cpc, spawned, chan, finished_threads,
                   win_weights, pending, weight_map, choice_map, file>>
    /\ UNCHANGED <<enumVars, gameVars>>
    /\ UNCHANGED serdeVars
    /\ UNCHANGED tableVars
    /\ UNCHANGED diceVars
    /\ UNCHANGED onceVars
    /\ UNCHANGED serverVars
    /\ UNCHANGED readerVars

\* the end of a worker: its map is sent to the main thread
WorkerSend(t) ==
    /\ workers[t].state = "running"
    /\ workers[t].played = games_to_play
    /\ chan' = Append(chan, workers[t].win_weights)
    /\ workers' = [workers EXCEPT ![t].state = "sent"]
    /\ UNCHANGED <<threads, games_to_play, cpc, spawned, finished_threads,
                   win_weights, pending, weight_map, choice_map, file>>
    /\ UNCHANGED <<enumVars, gameVars>>
    /\ UNCHANGED serdeVars
    /\ UNCHANGED tableVars
    /\ UNCHANGED diceVars
    /\ UNCHANGED onceVars
    /\ UNCHANGED serverVars
    /\ UNCHANGED readerVars

\* the Senders of the channel still alive: tx of the main thread, which
\* lives until compute_weights returns, and the clone of every running worker
senders ==
    1 + Cardinality({t \in 1..threads : workers[t].state = "running"})

\* what rx.recv() does: a value if one is queued, an Err once the queue is
\* empty and every Sender is dropped, and it blocks otherwise
recv ==
    IF chan # <<>> THEN "value"
    ELSE IF senders = 0 THEN "err"
    ELSE "blocks"

\* mutant: the receiving loop does not take an empty map off the channel
RecvSkipsEmptyMaps ==
    /\ cpc = "main"
    /\ spawned = threads
    /\ finished_threads < threads
    /\ recv = "value"
    /\ Head(chan) # <<>>
    /\ win_weights' = merge_thread_map(Head(chan), win_weights)
    /\ chan' = Tail(chan)
    /\ finished_threads' = finished_threads + 1
    /\ UNCHANGED <<threads, games_to_play, cpc, spawned, workers,
                   pending, weight_map, choice_map, file>>
    /\ UNCHANGED <<enumVars, gameVars>>
    /\ UNCHANGED serdeVars
    /\ UNCHANGED tableVars
    /\ UNCHANGED diceVars
    /\ UNCHANGED onceVars
    /\ UNCHANGED serverVars
    /\ UNCHANGED readerVars

\* one iteration of the receiving loop: a map is received and merged
Recv ==
    /\ cpc = "main"
    /\ spawned = threads
    /\ finished_threads < threads
    /\ recv = "value"
    /\ win_weights' = merge_thread_map(Head(chan), win_weights)
    /\ chan' = Tail(chan)
    /\ finished_threads' = finished_threads + 1
    /\ UNCHANGED <<threads, games_to_play, cpc, spawned, workers,
                   pending, weight_map, choice_map, file>>
    /\ UNCHANGED <<enumVars, gameVars>>
    /\ UNCHANGED serdeVars
    /\ UNCHANGED tableVars
    /\ UNCHANGED diceVars
    /\ UNCHANGED onceVars
    /\ UNCHANGED serverVars
    /\ UNCHANGED readerVars

\* mutant: the receiving loop runs one iteration short
BeginReduceEarly ==
    /\ cpc = "main"
    /\ spawned = threads
    /\ finished_threads >= threads - 1
    /\ cpc' = "reduce"
    /\ pending' = DOMAIN win_weights
    /\ weight_map' = <<>>
    /\ choice_map' = <<>>
    /\ UNCHANGED <<threads, games_to_play, spawned, workers, chan,
                   finished_threads, win_weights, file>>
    /\ UNCHANGED <<enumVars, gameVars>>
    /\ UNCHANGED serdeVars
    /\ UNCHANGED tableVars
    /\ UNCHANGED diceVars
    /\ UNCHANGED onceVars
    /\ UNCHANGED serverVars
    /\ UNCHANGED readerVars

\* the receiving loop is over: the reduction starts on the keys of win_weights
BeginReduce ==
    /\ cpc = "main"
    /\ spawned = threads
    /\ finished_threads = threads
    /\ cpc' = "reduce"
    /\ pending' = DOMAIN win_weights
    /\ weight_map' = <<>>
    /\ choice_map' = <<>>
    /\ UNCHANGED <<threads, games_to_play, spawned, workers, chan,
                   finished_threads, win_weights, file>>
    /\ UNCHANGED <<enumVars, gameVars>>
    /\ UNCHANGED serdeVars
    /\ UNCHANGED tableVars
    /\ UNCHANGED diceVars
    /\ UNCHANGED onceVars
    /\ UNCHANGED serverVars
    /\ UNCHANGED readerVars

\* one iteration of the reduction loop, on whichever key the map's iterator
\* gives next
ReduceVisit ==
    /\ cpc = "reduce"
    /\ \E choice \in pending :
        /\ pending' = pending \ {choice}
        /\ IF is_dying_choice(choice)
           THEN /\ cpc' = "panicked"
                /\ UNCHANGED <<weight_map, choice_map>>
           ELSE LET maps == reduce_visit(
                        [weight_map |-> weight_map, choice_map |-> choice_map],
                        choice, win_weights)
                IN /\ weight_map' = maps.weight_map
                   /\ choice_map' = maps.choice_map
                   /\ UNCHANGED cpc
    /\ UNCHANGED <<threads, games_to_play, spawned, workers, chan,
                   finished_threads, win_weights, file>>
    /\ UNCHANGED <<enumVars, gameVars>>
    /\ UNCHANGED serdeVars
    /\ UNCHANGED tableVars
    /\ UNCHANGED diceVars
    /\ UNCHANGED onceVars
    /\ UNCHANGED serverVars
    /\ UNCHANGED readerVars

\* the reduction is over: choice_map is written to best_moves.yml
WriteFile ==
    /\ cpc = "reduce"
    /\ pending = {}
    /\ file' = [written |-> TRUE, data |-> choice_map]
    /\ cpc' = "done"
    /\ UNCHANGED <<threads, games_to_play, spawned, workers, chan,
                   finished_threads, win_weights, pending, weight_map, choice_map>>
    /\ UNCHANGED <<enumVars, gameVars>>
    /\ UNCHANGED serdeVars
    /\ UNCHANGED tableVars
    /\ UNCHANGED diceVars
    /\ UNCHANGED onceVars
    /\ UNCHANGED serverVars
    /\ UNCHANGED readerVars

Next ==
    \/ Spawn
    \/ \E t \in 1..threads : GetOrInit(t)
    \/ \E t \in 1..threads : WorkerGame(t)
    \/ \E t \in 1..threads : WorkerPanic(t)
    \/ \E t \in 1..threads : WorkerSend(t)
    \/ Recv
    \/ BeginReduce
    \/ ReduceVisit
    \/ WriteFile

Spec == Init /\ [][Next]_vars

\* every spawned thread and the main thread keep being scheduled: a step of
\* the code that stays possible is taken.  An unwinding is never forced.
Fairness ==
    /\ WF_vars(Spawn)
    /\ \A t \in 1..MaxThreads :
            /\ WF_vars(t \in DOMAIN workers /\ GetOrInit(t))
            /\ WF_vars(t \in DOMAIN workers /\ WorkerGame(t))
            /\ WF_vars(t \in DOMAIN workers /\ WorkerSend(t))
    /\ WF_vars(Recv)
    /\ WF_vars(BeginReduce)
    /\ WF_vars(ReduceVisit)
    /\ WF_vars(WriteFile)

SpecFair == Init /\ [][Next]_vars /\ Fairness

----------------------------------------------------------------------------
(* BoardRoll as a map key of best_moves.yml: DiceRoll, the text written by
   Serialize and the text read by BoardRollVisitor::visit_str.  A text is a
   sequence of one-character strings. *)

\* the roll parts of the texts handed to visit_str are the decimals of
\* 0..MaxRollText and a few malformed ones
MaxRollText == 256

U8 == 256

Digits == <<"0", "1", "2", "3", "4", "5", "6", "7", "8", "9">>

IsDigit(ch) == \E i \in 1..10 : Digits[i] = ch

to_digit(ch) == (CHOOSE i \in 1..10 : Digits[i] = ch) - 1

\* Display of an unsigned integer: its decimal digits, no sign, no padding
RECURSIVE to_string(_)
to_string(n) ==
    IF n < 10 THEN <<Digits[n + 1]>>
    ELSE Append(to_string(n \div 10), Digits[(n % 10) + 1])

Ok(value) == [ok |-> TRUE, value |-> value, error |-> ""]
Err(error) == [ok |-> FALSE, value |-> None, error |-> error]

\* the digit loop of from_str for an unsigned type of `limit` values: the
\* result so far is multiplied by ten and the digit added, an Err as soon
\* as a character is no digit or the result leaves the type
RECURSIVE from_str_digits(_, _, _)
from_str_digits(src, result, limit) ==
    IF src = <<>> THEN Ok(result)
    ELSE IF ~IsDigit(Head(src)) THEN Err("InvalidDigit")
    ELSE LET next == result * 10 + to_digit(Head(src))
         IN IF next >= limit THEN Err("PosOverflow")
            ELSE from_str_digits(Tail(src), next, limit)

\* <unsigned>::from_str: empty text and a lone sign are errors, one leading
\* "+" is skipped, a "-" is a digit error
from_str(src, limit) ==
    IF src = <<>> THEN Err("Empty")
    ELSE IF Len(src) = 1 /\ Head(src) \in {"+", "-"} THEN Err("InvalidDigit")
    ELSE IF Head(src) = "+" THEN from_str_digits(Tail(src), 0, limit)
    ELSE from_str_digits(src, 0, limit)

u16_from_str(src) == from_str(src, U16)
u8_from_str(src) == from_str(src, U8)

NoSplit == <<>>

\* str::rsplit_once on a one-character delimiter: the text before and after
\* its last occurrence, None without one
RECURSIVE rsplit_once_from(_, _, _)
rsplit_once_from(value, delimiter, i) ==
    IF i = 0 THEN NoSplit
    ELSE IF value[i] = delimiter
         THEN <<SubSeq(value, 1, i - 1), SubSeq(value, i + 1, Len(value))>>
         ELSE rsplit_once_from(value, delimiter, i - 1)

rsplit_once(value, delimiter) == rsplit_once_from(value, delimiter, Len(value))

\* DiceRoll is a u8: the first die in bits 7..5, the second in bits 3..1
DiceRoll_new_single(one) == (one * 32) % U8

\* mutant: the second die is not shifted to bits 3..1
DiceRoll_new_dual_unshifted(one, two) ==
    BitOr((one * 32) % U8, BitAnd(two, 7))

DiceRoll_new_dual(one, two) ==
    BitOr((one * 32) % U8, (BitAnd(two, 7) * 2) % U8)

DiceRoll_get_value(roll) ==
    (BitAnd(roll, 224) \div 32) + (BitAnd(roll, 14) \div 2)

DiceRoll_is_valid(roll) ==
    LET value == DiceRoll_get_value(roll)
    IN value > 1 /\ 13 > value

\* From<u8> for DiceRoll, for the values it does not panic on
DiceRoll_from(value) ==
    CASE value = 1 -> DiceRoll_new_single(1)
      [] value = 2 -> DiceRoll_new_dual(1, 1)
      [] value = 3 -> DiceRoll_new_dual(2, 1)
      [] value = 4 -> DiceRoll_new_dual(3, 1)
      [] value = 5 -> DiceRoll_new_dual(4, 1)
      [] value = 6 -> DiceRoll_new_dual(5, 1)
      [] value = 7 -> DiceRoll_new_dual(6, 1)
      [] value = 8 -> DiceRoll_new_dual(6, 2)
      [] value = 9 -> DiceRoll_new_dual(6, 3)
      [] value = 10 -> DiceRoll_new_dual(6, 4)
      [] value = 11 -> DiceRoll_new_dual(6, 5)
      [] value = 12 -> DiceRoll_new_dual(6, 6)

\* mutant: the roll is written as its dice sum, not as its encoded byte
BoardRoll_serialize_value(board_roll) ==
    to_string(board_roll.board) \o <<"-">>
        \o to_string(DiceRoll_get_value(board_roll.roll))

\* Serialize for BoardRoll: format!("{}-{}", board, roll), the derived
\* Display of DiceRoll being that of its u8
BoardRoll_serialize(board_roll) ==
    to_string(board_roll.board) \o <<"-">> \o to_string(board_roll.roll)

\* mutant: the board is not compared with 511
visit_str_any_board(value) ==
    LET values == rsplit_once(value, "-")
    IN IF values = NoSplit THEN Err("invalid string for a board roll")
       ELSE LET board == u16_from_str(values[1])
                roll == u8_from_str(values[2])
            IN IF ~board.ok THEN Err("invalid u16 for board")
               ELSE IF ~roll.ok THEN Err("invalid u8 for roll")
               ELSE IF ~DiceRoll_is_valid(roll.value)
                    THEN Err("roll cannot have a value above 12")
               ELSE Ok(BoardRoll(board.value, roll.value))

visit_str(value) ==
    LET values == rsplit_once(value, "-")
    IN IF values = NoSplit THEN Err("invalid string for a board roll")
       ELSE LET board == u16_from_str(values[1])
                roll == u8_from_str(values[2])
            IN IF ~board.ok THEN Err("invalid u16 for board")
               ELSE IF ~roll.ok THEN Err("invalid u8 for roll")
               ELSE IF board.value > 511
                    THEN Err("board cannot have a value above 511")
               ELSE IF ~DiceRoll_is_valid(roll.value)
                    THEN Err("roll cannot have a value above 12")
               ELSE Ok(BoardRoll(board.value, roll.value))

\* texts that are no decimal of an unsigned integer
MalformedParts ==
    {<<>>, <<"x">>, <<"+">>, <<"+", "5">>, <<"-", "5">>, <<"0", "7">>,
     <<"5", "x">>, <<" ", "5">>}

\* the board parts of the texts handed to visit_str
TextBoards == {0, 7, 10, 511, 512, 65535, 65536, 70000}

Texts ==
    {board_part \o separator \o roll_part :
        board_part \in {to_string(n) : n \in TextBoards} \cup MalformedParts,
        separator \in {<<"-">>, <<>>},
        roll_part \in {to_string(n) : n \in 0..MaxRollText} \cup MalformedParts}

\* either a BoardRoll of a board and the DiceRoll of a dice sum, to be
\* serialized and read back, or a text to be read
InitSerde ==
    /\ \/ /\ spc = "new"
          /\ serde_self \in {BoardRoll(board, DiceRoll_from(value)) :
                                board \in 0..(BoardCount - 1), value \in 2..12}
          /\ serde_text = <<>>
       \/ /\ spc = "text"
          /\ serde_self = NoBoardRoll
          /\ serde_text \in Texts
    /\ serde_result = NotParsed
    /\ InitEnumIdle
    /\ InitGameIdle
    /\ InitComputeIdle
    /\ InitTableIdle
    /\ InitDiceIdle
    /\ InitOnceIdle
    /\ InitServerIdle
    /\ InitReaderIdle

Serialize ==
    /\ spc = "new"
    /\ serde_text' = BoardRoll_serialize(serde_self)
    /\ spc' = "text"
    /\ UNCHANGED <<serde_self, serde_result>>
    /\ UNCHANGED <<enumVars, gameVars, computeVars>>
    /\ UNCHANGED tableVars
    /\ UNCHANGED diceVars
    /\ UNCHANGED onceVars
    /\ UNCHANGED serverVars
    /\ UNCHANGED readerVars

Deserialize ==
    /\ spc = "text"
    /\ serde_result' = visit_str(serde_text)
    /\ spc' = "parsed"
    /\ UNCHANGED <<serde_self, serde_text>>
    /\ UNCHANGED <<enumVars, gameVars, computeVars>>
    /\ UNCHANGED tableVars
    /\ UNCHANGED diceVars
    /\ UNCHANGED onceVars
    /\ UNCHANGED serverVars
    /\ UNCHANGED readerVars

NextSerde == Serialize \/ Deserialize

SpecSerde == InitSerde /\ [][NextSerde]_vars

----------------------------------------------------------------------------
(* DiceRoll: its constructors and the table of the 36 pairs of dice *)

\* the largest argument handed to new_dual
MaxDie == 7

\* `index` of get_rolls
get_rolls_index(one, two) == ((one - 1) * 6) + two - 1

\* let mut dual_rolls = [DiceRoll(0); 36], before the loops
InitDice ==
    /\ dice_call = NoCall
    /\ dice_roll = None
    /\ dual_rolls = [index \in 1..RollTableLen |-> 0]
    /\ loop_one = 1
    /\ loop_two = 1
    /\ InitEnumIdle
    /\ InitGameIdle
    /\ InitComputeIdle
    /\ InitSerdeIdle
    /\ InitTableIdle
    /\ InitOnceIdle
    /\ InitServerIdle
    /\ InitReaderIdle

NewDual ==
    /\ \E one, two \in 0..MaxDie :
            /\ dice_call' = [fn |-> "new_dual", one |-> one, two |-> two]
            /\ dice_roll' = DiceRoll_new_dual(one, two)
    /\ UNCHANGED <<dual_rolls, loop_one, loop_two>>
    /\ UNCHANGED <<enumVars, gameVars, computeVars, serdeVars, tableVars>>
    /\ UNCHANGED onceVars
    /\ UNCHANGED serverVars
    /\ UNCHANGED readerVars

From ==
    /\ \E value \in 1..12 :
            /\ dice_call' = [fn |-> "from", value |-> value]
            /\ dice_roll' = DiceRoll_from(value)
    /\ UNCHANGED <<dual_rolls, loop_one, loop_two>>
    /\ UNCHANGED <<enumVars, gameVars, computeVars, serdeVars, tableVars>>
    /\ UNCHANGED onceVars
    /\ UNCHANGED serverVars
    /\ UNCHANGED readerVars

\* one iteration of the inner loop of get_rolls
GetRollsStep ==
    /\ loop_one < 7
    /\ dual_rolls' =
            [dual_rolls EXCEPT ![get_rolls_index(loop_one, loop_two) + 1] =
                DiceRoll_new_dual(loop_one, loop_two)]
    /\ IF loop_two < 6
       THEN loop_two' = loop_two + 1 /\ loop_one' = loop_one
       ELSE loop_two' = 1 /\ loop_one' = loop_one + 1
    /\ UNCHANGED <<dice_call, dice_roll>>
    /\ UNCHANGED <<enumVars, gameVars, computeVars, serdeVars, tableVars>>
    /\ UNCHANGED onceVars
    /\ UNCHANGED serverVars
    /\ UNCHANGED readerVars

NextDice == NewDual \/ From \/ GetRollsStep

SpecDice == InitDice /\ [][NextDice]_vars

----------------------------------------------------------------------------
(* Server<Listening>: the loop of start over listen, register_client and
   clients_ready.  A connection is named by the order of its accept. *)

\* connections accepted in a run
MaxClients == 3

\* iterations of the loop of start in a run
MaxLoops == 3

ServerMessage(msg, n) == [msg |-> msg, n |-> n]

OptInAccept == ServerMessage("OptInAccept", 0)

OptInDeny == ServerMessage("OptInDeny", 0)

PlayersConnected(n) == ServerMessage("PlayersConnected", n % U8)

PlayersReady(n) == ServerMessage("PlayersReady", n % U8)

\* what reading.try_recv() gives for a connection of to_accept: nothing yet,
\* an OptInForPlaying, another ClientMessages, or the Err of a bad packet
\* or of a read error.  Disconnected is not among them: the reading thread
\* sends before it ends, and a connection whose message was taken leaves
\* to_accept
PolledOutcomes == {"Empty", "OptInForPlaying", "ReadyForStart", "BadPacket"}

Polled(id, outcome) == [id |-> id, outcome |-> outcome]

\* Vec::swap_remove on an index within bounds: the last element takes the
\* place of the removed one
swap_remove(vec, at) ==
    [i \in 1..(Len(vec) - 1) |-> IF i = at + 1 THEN vec[Len(vec)] ELSE vec[i]]

\* Vec::remove on an index within bounds: the elements after it shift left
remove(vec, at) ==
    [i \in 1..(Len(vec) - 1) |-> IF i < at + 1 THEN vec[i] ELSE vec[i + 1]]

\* channel.writing.send(message) on the connection id
send(boxes, id, message) == [boxes EXCEPT ![id] = Append(@, message)]

\* the first loop of register_client, from the index at on: the indices of
\* to_accept to add and to remove, in ascending order; a disconnected
\* reading channel panics
RECURSIVE scan_to_accept(_, _, _)
scan_to_accept(received, at, found) ==
    IF at >= Len(received) THEN found
    ELSE LET outcome == received[at + 1].outcome
         IN CASE outcome = "Empty" -> scan_to_accept(received, at + 1, found)
              [] outcome = "Disconnected" -> [found EXCEPT !.panicked = TRUE]
              [] outcome = "OptInForPlaying" ->
                    scan_to_accept(received, at + 1,
                        [found EXCEPT !.to_add = Append(@, at)])
              [] OTHER ->
                    scan_to_accept(received, at + 1,
                        [found EXCEPT !.to_remove = Append(@, at)])

\* the second loop of register_client, on a record of the fields of the
\* Server: swap_remove panics on an index out of bounds
RECURSIVE register_valid(_, _)
register_valid(server, to_add) ==
    IF to_add = <<>> \/ server.panicked THEN server
    ELSE IF Head(to_add) >= Len(server.to_accept)
         THEN [server EXCEPT !.panicked = TRUE]
         ELSE LET client_channels == server.to_accept[Head(to_add) + 1]
              IN register_valid(
                    [server EXCEPT
                        !.to_accept = swap_remove(@, Head(to_add)),
                        !.outbox = send(@, client_channels, OptInAccept),
                        !.clients = Append(@, client_channels)],
                    Tail(to_add))

\* the third loop of register_client: remove panics on an index out of
\* bounds
RECURSIVE drop_bad(_, _)
drop_bad(server, to_remove) ==
    IF to_remove = <<>> \/ server.panicked THEN server
    ELSE IF Head(to_remove) >= Len(server.to_accept)
         THEN [server EXCEPT !.panicked = TRUE]
         ELSE LET removed_client == server.to_accept[Head(to_remove) + 1]
              IN drop_bad(
                    [server EXCEPT
                        !.to_accept = remove(@, Head(to_remove)),
                        !.outbox = send(@, removed_client, OptInDeny)],
                    Tail(to_remove))

\* register_client on the fields of the Server and the outcomes of try_recv
register_client(server, received) ==
    LET indices == scan_to_accept(received, 0,
                        [to_add |-> <<>>, to_remove |-> <<>>, panicked |-> FALSE])
    IN IF indices.panicked THEN [server EXCEPT !.panicked = TRUE]
       ELSE drop_bad(register_valid(server, indices.to_add), indices.to_remove)

\* write_to_all: the message is sent to every registered client
RECURSIVE write_to_all(_, _, _)
write_to_all(boxes, registered, server_message) ==
    IF registered = <<>> THEN boxes
    ELSE write_to_all(send(boxes, Head(registered), server_message),
                      Tail(registered), server_message)

\* Server::new: nothing connected, both previous counts 0
InitServer ==
    /\ to_accept = <<>>
    /\ clients = <<>>
    /\ accepted = <<>>
    /\ previous_connected = 0
    /\ previous_ready = 0
    /\ net_step = "listen"
    /\ polled = <<>>
    /\ outbox = [id \in 1..MaxClients |-> <<>>]
    /\ loops_done = 0
    /\ InitEnumIdle
    /\ InitGameIdle
    /\ InitComputeIdle
    /\ InitSerdeIdle
    /\ InitTableIdle
    /\ InitDiceIdle
    /\ InitOnceIdle
    /\ InitReaderIdle

\* the connections accepted so far: pending, registered or denied
connections ==
    Len(to_accept) + Len(clients)
        + Cardinality({id \in DOMAIN outbox : OptInDeny \in Range(outbox[id])})

\* listen: accept gives a connection, which is pushed to to_accept
ListenAccept ==
    /\ net_step = "listen"
    /\ loops_done < MaxLoops
    /\ connections < MaxClients
    /\ to_accept' = Append(to_accept, connections + 1)
    /\ net_step' = "register"
    /\ UNCHANGED <<clients, accepted, previous_connected, previous_ready,
                   polled, outbox, loops_done>>
    /\ UNCHANGED <<enumVars, gameVars, computeVars, serdeVars, tableVars,
                   diceVars, onceVars>>
    /\ UNCHANGED readerVars

\* listen: accept gives WouldBlock or another error
ListenNone ==
    /\ net_step = "listen"
    /\ loops_done < MaxLoops
    /\ net_step' = "register"
    /\ UNCHANGED <<to_accept, clients, accepted, previous_connected,
                   previous_ready, polled, outbox, loops_done>>
    /\ UNCHANGED <<enumVars, gameVars, computeVars, serdeVars, tableVars,
                   diceVars, onceVars>>
    /\ UNCHANGED readerVars

RegisterClient ==
    /\ net_step = "register"
    /\ \E outcomes \in [1..Len(to_accept) -> PolledOutcomes] :
        LET received == [i \in 1..Len(to_accept) |->
                            Polled(to_accept[i], outcomes[i])]
            server == register_client(
                        [to_accept |-> to_accept, clients |-> clients,
                         outbox |-> outbox, panicked |-> FALSE],
                        received)
        IN /\ polled' = received
           /\ to_accept' = server.to_accept
           /\ clients' = server.clients
           /\ outbox' = server.outbox
           /\ net_step' = IF server.panicked THEN "panicked" ELSE "ready"
    /\ UNCHANGED <<accepted, previous_connected, previous_ready, loops_done>>
    /\ UNCHANGED <<enumVars, gameVars, computeVars, serdeVars, tableVars,
                   diceVars, onceVars>>
    /\ UNCHANGED readerVars

\* the number of accepted channels whose flag is set
RECURSIVE count_ready(_)
count_ready(channels) ==
    IF channels = <<>> THEN 0
    ELSE (IF Head(channels) THEN 1 ELSE 0) + count_ready(Tail(channels))

\* clients_ready: neither previous count is assigned
ClientsReady ==
    /\ net_step = "ready"
    /\ LET connected == Len(clients)
           ready == count_ready(accepted)
           after_connected ==
                IF connected # previous_connected
                THEN write_to_all(outbox, clients, PlayersConnected(connected))
                ELSE outbox
           after_ready ==
                IF ready # previous_ready
                THEN write_to_all(after_connected, clients, PlayersReady(ready))
                ELSE after_connected
       IN /\ outbox' = after_ready
          /\ net_step' = IF ready = connected /\ connected # 0
                         THEN "panicked" ELSE "listen"
    /\ loops_done' = loops_done + 1
    /\ UNCHANGED <<to_accept, clients, accepted, previous_connected,
                   previous_ready, polled>>
    /\ UNCHANGED <<enumVars, gameVars, computeVars, serdeVars, tableVars,
                   diceVars, onceVars>>
    /\ UNCHANGED readerVars

NextServer == ListenAccept \/ ListenNone \/ RegisterClient \/ ClientsReady

SpecServer == InitServer /\ [][NextServer]_vars

----------------------------------------------------------------------------
(* initialize_channels: the reading thread, the peer that writes to the
   stream and the owner of read_receiver *)

ETX == 3

\* the bytes the peer writes: ETX, NUL and a letter
PeerBytes == {ETX, 0, 97}

\* bytes written by the peer in a run
MaxWire == 4

\* lengths of data above MaxData are not told apart
MaxData == 6

\* Ok(parsed_packet) or Err(BadPacket(message)), both made from message
Packet(message) == [kind |-> "packet", message |-> message]

\* Err(ChannelError::ReadError(kind))
ReadError == [kind |-> "ReadError", message |-> <<>>]

\* data.push(byte)
push(vec, byte) == IF Len(vec) < MaxData THEN Append(vec, byte) ELSE vec

InitReader ==
    /\ peer = "open"
    /\ wire = <<>>
    /\ read_stream = <<>>
    /\ read_data = <<>>
    /\ read_channel = <<>>
    /\ read_receiver = "alive"
    /\ reading = "reading"
    /\ InitEnumIdle
    /\ InitGameIdle
    /\ InitComputeIdle
    /\ InitSerdeIdle
    /\ InitTableIdle
    /\ InitDiceIdle
    /\ InitOnceIdle
    /\ InitServerIdle

PeerWrite ==
    /\ peer = "open"
    /\ Len(wire) < MaxWire
    /\ \E byte \in PeerBytes :
        /\ wire' = Append(wire, byte)
        /\ read_stream' = Append(read_stream, byte)
    /\ UNCHANGED <<peer, read_data, read_channel, read_receiver, reading>>
    /\ UNCHANGED <<enumVars, gameVars, computeVars, serdeVars, tableVars,
                   diceVars, onceVars, serverVars>>

\* the peer closes the connection: once the bytes written are read,
\* read_exact gives UnexpectedEof
PeerClose ==
    /\ peer = "open"
    /\ peer' = "closed"
    /\ UNCHANGED <<wire, read_stream, read_data, read_channel, read_receiver,
                   reading>>
    /\ UNCHANGED <<enumVars, gameVars, computeVars, serdeVars, tableVars,
                   diceVars, onceVars, serverVars>>

\* the connection breaks: read_exact gives an error of another kind
PeerReset ==
    /\ peer = "open"
    /\ peer' = "reset"
    /\ UNCHANGED <<wire, read_stream, read_data, read_channel, read_receiver,
                   reading>>
    /\ UNCHANGED <<enumVars, gameVars, computeVars, serdeVars, tableVars,
                   diceVars, onceVars, serverVars>>

\* the owner of the Channels drops it
DropReceiver ==
    /\ read_receiver = "alive"
    /\ read_receiver' = "dropped"
    /\ UNCHANGED <<peer, wire, read_stream, read_data, read_channel, reading>>
    /\ UNCHANGED <<enumVars, gameVars, computeVars, serdeVars, tableVars,
                   diceVars, onceVars, serverVars>>

\* an iteration of the inner loop whose read_exact gives a byte: the byte is
\* pushed, or it is ETX and the message is sent, which ends the thread when
\* the receiver is dropped
ReadByte ==
    /\ reading = "reading"
    /\ read_stream # <<>>
    /\ read_stream' = Tail(read_stream)
    /\ IF Head(read_stream) # ETX
       THEN /\ read_data' = push(read_data, Head(read_stream))
            /\ UNCHANGED <<read_channel, reading>>
       ELSE IF read_receiver = "alive"
       THEN /\ read_channel' = Append(read_channel, Packet(read_data))
            /\ read_data' = <<>>
            /\ UNCHANGED reading
       ELSE /\ reading' = "ended"
            /\ UNCHANGED <<read_data, read_channel>>
    /\ UNCHANGED <<peer, wire, read_receiver>>
    /\ UNCHANGED <<enumVars, gameVars, computeVars, serdeVars, tableVars,
                   diceVars, onceVars, serverVars>>

\* an iteration of the inner loop whose read_exact gives UnexpectedEof: the
\* arm is empty, and the 0 of the fresh buffer, which is not ETX, is pushed
ReadEof ==
    /\ reading = "reading"
    /\ read_stream = <<>>
    /\ peer = "closed"
    /\ read_data' = push(read_data, 0)
    /\ UNCHANGED <<peer, wire, read_stream, read_channel, read_receiver,
                   reading>>
    /\ UNCHANGED <<enumVars, gameVars, computeVars, serdeVars, tableVars,
                   diceVars, onceVars, serverVars>>

\* an iteration of the inner loop whose read_exact gives another error: the
\* error is sent if the receiver is alive, and the thread ends
ReadFailure ==
    /\ reading = "reading"
    /\ read_stream = <<>>
    /\ peer = "reset"
    /\ read_channel' = IF read_receiver = "alive"
                       THEN Append(read_channel, ReadError)
                       ELSE read_channel
    /\ reading' = "ended"
    /\ UNCHANGED <<peer, wire, read_stream, read_data, read_receiver>>
    /\ UNCHANGED <<enumVars, gameVars, computeVars, serdeVars, tableVars,
                   diceVars, onceVars, serverVars>>

NextReader ==
    \/ PeerWrite
    \/ PeerClose
    \/ PeerReset
    \/ DropReceiver
    \/ ReadByte
    \/ ReadEof
    \/ ReadFailure

\* the reading thread keeps being scheduled; the peer and the owner of the
\* receiver are free to do nothing
SpecReader ==
    /\ InitReader
    /\ [][NextReader]_vars
    /\ WF_vars(ReadByte)
    /\ WF_vars(ReadEof)
    /\ WF_vars(ReadFailure)

----------------------------------------------------------------------------
(* C1: every successor listed by Roll::new(r, b) has no bit that is clear
   in b, and the piece numbers of the bits cleared from b sum to r. *)
SuccessorsAreSubmasksSummingToRoll ==
    built # NoBoard =>
        \A k \in 1..11 :
            \A i \in 1..Len(built.rolls[k].boards) :
                LET s == built.rolls[k].boards[i]
                    b == in_board
                IN /\ BitAnd(s, BitNot(b)) = 0
                   /\ SetSum(AlivePieces(b) \ AlivePieces(s))
                        = built.rolls[k].roll_value
                   /\ built.rolls[k].roll_value = k + 1

\* a board with several successors for one roll has been enumerated
WitnessSuccessors ==
    /\ built # NoBoard
    /\ in_board = 511
    /\ Len(built.rolls[8].boards) > 1

(* C2: the successor list of Roll::new(r, b) is exactly the set of boards
   { b with S cleared : S a non-empty subset of b's alive pieces summing to
   r }, nothing missing and nothing listed twice; board 3 with roll 3 has
   the single successor 0. *)
SuccessorsAreExactlyTheSummingSubsets ==
    built # NoBoard =>
        \A k \in 1..11 :
            LET boards == built.rolls[k].boards
                b == in_board
                expected == {b - MaskOf(S) :
                               S \in {T \in SUBSET AlivePieces(b) :
                                        T # {} /\ SetSum(T) = k + 1}}
            IN /\ Range(boards) = expected
               /\ Len(boards) = Cardinality(expected)
               /\ (b = 3 /\ k = 2) => boards = <<0>>

\* board 0b000000011 has been enumerated and its roll 3 holds the board 0
WitnessBoardThreeRollThree ==
    /\ built # NoBoard
    /\ in_board = 3
    /\ built.rolls[2].roll_value = 3
    /\ built.rolls[2].boards = <<0>>

(* C3: no successor list of any of the 11 rolls of a board contains the
   board itself: every legal move clears at least one piece. *)
NoSuccessorIsTheBoardItself ==
    built # NoBoard =>
        \A k \in 1..11 :
            \A i \in 1..Len(built.rolls[k].boards) :
                /\ built.rolls[k].boards[i] # in_board
                /\ count_ones(built.rolls[k].boards[i]) < count_ones(in_board)

\* board 0b000000111 has been enumerated: roll 3 leads to 4 or to 3
WitnessMovesChangeBoard ==
    /\ built # NoBoard
    /\ in_board = 7
    /\ built.rolls[2].boards = <<4, 3>>

----------------------------------------------------------------------------
(* C4 (as claimed): whenever the two games of a pair end with different
   residual values, the game with the strictly lower value is scored WIN
   and the one with the strictly higher value is scored LOSS. *)
LowerResidualIsScoredWin ==
    pc = "scored" =>
        /\ first_game.value < second_game.value =>
                first.result = WIN /\ second.result = LOSS
        /\ second_game.value < first_game.value =>
                second.result = WIN /\ first.result = LOSS

RECURSIVE CountMoves(_)
CountMoves(moves) ==
    IF moves = <<>> THEN 0
    ELSE (IF is_dying_choice(Head(moves)) THEN 0 ELSE 1) + CountMoves(Tail(moves))

ProperSubmask(s, b) == BitAnd(s, BitNot(b)) = 0 /\ s # b

\* the moves made so far are board-changing, at most 9, and none came after
\* a roll without a successor
MovesSoFarOk(moves) ==
    /\ CountMoves(moves) <= 9
    /\ moves # <<>> => CountMoves(moves) <= count_ones(moves[1].root_board)
    /\ \A i \in 1..Len(moves) :
        LET c == moves[i]
            has_successor == Roll_new(c.roll, c.root_board).boards # <<>>
        IN /\ ~is_dying_choice(c) => ProperSubmask(c.chosen_board, c.root_board)
           /\ is_dying_choice(c) <=> ~has_successor
           /\ c.root_board = 0 => is_dying_choice(c)
           /\ is_dying_choice(c) => i = Len(moves)

(* C8: a game simulation from any start board, under every sequence of
   sampled rolls and successors, makes at most 9 board-changing moves:
   every non-terminal step moves to a proper submask of the current board
   and the simulation stops at the first sampled roll with no successor
   (always so on board 0). *)
GameEndsWithinNineMoves ==
    /\ MovesSoFarOk(choices)
    /\ \A i \in 1..Len(choices) : ~is_dying_choice(choices[i])
    /\ MovesSoFarOk(first_game.moves)
    /\ MovesSoFarOk(second_game.moves)
    /\ first_game # NoGame =>
            is_dying_choice(first_game.moves[Len(first_game.moves)])
    /\ second_game # NoGame =>
            is_dying_choice(second_game.moves[Len(second_game.moves)])
    /\ pc \in {"one", "two"} => ProperSubmask(cur, start) \/ cur = start

\* a finished game of two board-changing moves that ended on board 0
WitnessGameOfTwoMoves ==
    /\ first_game # NoGame
    /\ CountMoves(first_game.moves) = 2
    /\ first_game.moves[Len(first_game.moves)].root_board = 0

(* C9: the value a game simulation returns is the sum of the piece numbers
   alive in the root board of its last recorded Choice and lies in 0..45;
   calculate_value(b) is the sum of i+1 over the set bits i in 0..8 of b,
   for every board b in 0..511. *)
ReturnedValueIsResidualSum ==
    /\ first_game # NoGame =>
        /\ first_game.value =
              SetSum(AlivePieces(first_game.moves[Len(first_game.moves)].root_board))
        /\ first_game.value \in 0..45
    /\ second_game # NoGame =>
        /\ second_game.value =
              SetSum(AlivePieces(second_game.moves[Len(second_game.moves)].root_board))
        /\ second_game.value \in 0..45
    /\ (pc = "one" /\ choices = <<>>) =>
        \A b \in 0..(BoardCount - 1) :
            /\ calculate_value([board |-> b]) =
                 SetSum({i + 1 : i \in {j \in 0..8 : Bit(b, j) = 1}})
            /\ calculate_value([board |-> b]) \in 0..45

\* a game has ended with pieces still standing
WitnessPositiveResidual ==
    /\ second_game # NoGame
    /\ second_game.value = 3
    /\ second_game.moves[Len(second_game.moves)].root_board = 3
    /\ Len(second_game.moves) = 2

(* C10: the two games of one run_game call start from the same board, and
   for every step index that exists in both move sequences the rolled value
   is the same in both games, whatever successors each game chose. *)
PairedGamesShareTheDice ==
    /\ first_game # NoGame => first_game.moves[1].root_board = start
    /\ second_game # NoGame => second_game.moves[1].root_board = start
    /\ pc = "two" =>
        \A i \in 1..Len(choices) :
            i <= Len(first_game.moves) => choices[i].roll = first_game.moves[i].roll
    /\ pc \in {"score", "scored"} =>
        \A i \in 1..Len(first_game.moves) :
            i <= Len(second_game.moves) =>
                second_game.moves[i].roll = first_game.moves[i].roll
    /\ pc = "scored" =>
        /\ first.moves = first_game.moves
        /\ second.moves = second_game.moves

\* two scored games that chose different successors at the first step and
\* both went on to a second step
WitnessGamesDiverge ==
    /\ pc = "scored"
    /\ Len(first.moves) >= 2
    /\ Len(second.moves) >= 2
    /\ first.moves[1].chosen_board # second.moves[1].chosen_board
    /\ first.moves[2].roll = second.moves[2].roll

----------------------------------------------------------------------------
\* the aggregated candidates of a board and roll
Candidates(board_roll) ==
    {c \in DOMAIN win_weights :
        c.root_board = board_roll.board /\ c.roll = board_roll.roll}

(* C5 (as claimed): for every (board, roll) key of the output mapping the
   recorded successor is an aggregated candidate of that key whose integer
   average total/count is the highest among all its aggregated candidates. *)
OutputHoldsHighestAverage ==
    cpc = "done" =>
        \A board_roll \in DOMAIN file.data :
            \E c \in Candidates(board_roll) :
                /\ c.chosen_board = file.data[board_roll]
                /\ \A d \in Candidates(board_roll) :
                        calculate(win_weights[d]) <= calculate(win_weights[c])

(* C6 (as claimed): a candidate the reduction loop meets later with an
   average equal to the one recorded for its (board, roll) never replaces
   the candidate recorded first. *)
TieKeepsFirstEncountered ==
    [][\A c \in pending \ pending' :
        LET board_roll == BoardRoll(c.root_board, c.roll)
        IN (/\ cpc = "reduce"
            /\ board_roll \in DOMAIN weight_map
            /\ weight_map[board_roll] = calculate(win_weights[c]))
           => choice_map'[board_roll] = choice_map[board_roll]]_vars

\* the orders in which the keys of a map can be visited
OrdersOf(S) ==
    {order \in [1..Cardinality(S) -> S] :
        \A i, j \in 1..Cardinality(S) : order[i] = order[j] => i = j}

RECURSIVE ReduceInOrder(_, _, _)
ReduceInOrder(maps, order, weights) ==
    IF order = <<>> THEN maps
    ELSE ReduceInOrder(reduce_visit(maps, Head(order), weights), Tail(order), weights)

(* C7 (as claimed): reducing the same aggregated Weight map always gives the
   same best-move mapping, whatever the order in which the entries of the
   map are visited. *)
ReductionIgnoresVisitOrder ==
    cpc = "done" =>
        \A order \in OrdersOf(DOMAIN win_weights) :
            ReduceInOrder([weight_map |-> <<>>, choice_map |-> <<>>],
                          order, win_weights).choice_map = file.data

\* the maps a Choice can be a key of: the workers' own, those on the channel
\* and the merged one
AllWeightMaps ==
    {workers[t].win_weights : t \in 1..threads}
        \cup Range(chan) \cup {win_weights}

(* C11: no Choice whose chosen successor is None is ever a key of a
   worker's map, of a map in flight or of the merged map, and the reduction
   never meets one: its expect on chosen_board never fails. *)
NoDyingChoiceIsAggregated ==
    /\ \A weights \in AllWeightMaps :
            \A choice \in DOMAIN weights : ~is_dying_choice(choice)
    /\ cpc # "panicked"

\* games were played, each ending on a dying choice, and their moves were
\* merged and reduced
WitnessGamesAggregated ==
    /\ cpc = "done"
    /\ threads = 2
    /\ games_to_play > 0
    /\ Cardinality(DOMAIN win_weights) > 2

\* the sum of the (total, used) pairs of a Choice over the maps of the
\* workers 1..t that contain it
RECURSIVE SumOverWorkers(_, _)
SumOverWorkers(choice, t) ==
    IF t = 0 THEN Weight(0, 0)
    ELSE LET rest == SumOverWorkers(choice, t - 1)
             own == workers[t].win_weights
         IN IF choice \in DOMAIN own
            THEN Weight(rest.total + own[choice].total,
                        rest.used + own[choice].used)
            ELSE rest

(* C12: once the main thread has received the maps of all its workers, the
   keys of the merged map are the union of the workers' keys and every key
   holds the sum of the (total, used) pairs the workers' maps hold for it,
   in whichever order the maps arrived. *)
MergedMapIsTheSumOfWorkerMaps ==
    (spawned = threads /\ finished_threads = threads) =>
        /\ DOMAIN win_weights =
                UNION {DOMAIN workers[t].win_weights : t \in 1..threads}
        /\ \A choice \in DOMAIN win_weights :
                win_weights[choice] = SumOverWorkers(choice, threads)

\* two workers' maps were merged that share a key and differ on another
WitnessTwoMapsMerged ==
    /\ threads = 2
    /\ finished_threads = 2
    /\ \E c \in DOMAIN workers[1].win_weights :
            c \in DOMAIN workers[2].win_weights
    /\ \E c \in DOMAIN workers[2].win_weights :
            c \notin DOMAIN workers[1].win_weights

(* C13: the reduction starts, and best_moves.yml is written, only after the
   main thread has received one map from each of its workers, every worker
   having sent exactly one; while a worker has ended without sending, the
   reduction has not started and nothing is written. *)
ReductionOnlyAfterEveryWorkerSent ==
    /\ (cpc \in {"reduce", "done", "panicked"} \/ file.written) =>
            /\ spawned = threads
            /\ finished_threads = threads
            /\ chan = <<>>
            /\ \A t \in 1..threads : workers[t].state = "sent"
    /\ (\E t \in 1..threads : workers[t].state \in {"running", "panicked"}) =>
            /\ cpc = "main"
            /\ ~file.written
    /\ finished_threads + Len(chan)
            = Cardinality({t \in 1..threads : workers[t].state = "sent"})

\* the mapping was written after both workers' maps were received
WitnessWrittenAfterTwoMaps ==
    /\ file.written
    /\ threads = 2
    /\ games_to_play > 0
    /\ finished_threads = 2

(* C14 (as claimed): when a worker has ended without sending its map, the
   main thread does not stay blocked in its receive: it is never left
   waiting on an empty channel with no worker still able to send. *)
MainNeverWaitsOnLostWorker ==
    ~ (/\ cpc = "main"
       /\ spawned = threads
       /\ finished_threads < threads
       /\ recv = "blocks"
       /\ \A t \in 1..threads : workers[t].state \in {"sent", "panicked"}
       /\ \E t \in 1..threads : workers[t].state = "panicked")

\* the moves of a game that did not cause a death
LivingMoves(moves) == {m \in Range(moves) : ~is_dying_choice(m)}

(* C15: the keys of the written mapping are exactly the (board, roll) pairs
   of the aggregated Choices, all of them non-terminal; a game enters
   exactly its non-terminal moves, so a (board, roll) seen only with a
   terminal choice is no key, and the roll of every key has a successor on
   the key's board. *)
OutputKeysAreTheAggregatedBoardRolls ==
    /\ cpc = "done" =>
            /\ DOMAIN file.data =
                    {BoardRoll(c.root_board, c.roll) :
                        c \in {d \in DOMAIN win_weights : ~is_dying_choice(d)}}
            /\ \A board_roll \in DOMAIN file.data :
                    /\ Roll_new(board_roll.roll, board_roll.board).boards # <<>>
                    /\ file.data[board_roll] \in
                            Range(Roll_new(board_roll.roll, board_roll.board).boards)
    /\ (cpc = "main" /\ spawned = 0) =>
            \A binary_board \in 0..MaxStartBoard :
                \A games \in run_game_from[binary_board] :
                    \A g \in 1..2 :
                        DOMAIN update_weights(games[g].moves, games[g].result, <<>>)
                            = LivingMoves(games[g].moves)

\* a mapping with several keys was written from the games of two workers
WitnessOutputWithKeys ==
    /\ cpc = "done"
    /\ threads = 2
    /\ Cardinality(DOMAIN file.data) >= 2
    /\ Cardinality(DOMAIN win_weights) > Cardinality(DOMAIN file.data)

(* C16 (as claimed): when compute_weights finishes with a positive thread
   count and a positive games_to_play, the written mapping has a move for
   every board and every roll in 2..12 whose successor list on that board is
   not empty.  Stated here for the boards a game of the model can start
   from, which is less than the claim asks. *)
OutputCoversEveryLegalMove ==
    (cpc = "done" /\ threads > 0 /\ games_to_play > 0) =>
        \A binary_board \in 0..MaxStartBoard :
            \A roll \in 2..12 :
                Roll_new(roll, binary_board).boards # <<>>
                    => BoardRoll(binary_board, roll) \in DOMAIN file.data

(* C17: for every board in 0..511 and every DiceRoll built from a dice sum
   in 2..12, reading the text written for BoardRoll{board, roll} succeeds
   and gives back an equal BoardRoll. *)
BoardRollRoundTrips ==
    (spc = "parsed" /\ serde_self # NoBoardRoll) =>
        /\ serde_result.ok
        /\ serde_result.value = serde_self

\* board 511 with the DiceRoll of the sum 12 was written as 511-204 and read
WitnessRoundTripOfLastBoard ==
    /\ spc = "parsed"
    /\ serde_self = BoardRoll(511, DiceRoll_from(12))
    /\ serde_text = <<"5", "1", "1", "-", "2", "0", "4">>
    /\ serde_result.ok

\* the position of the last dash of a text, 0 without one
LastDash(t) ==
    IF \E i \in 1..Len(t) : t[i] = "-"
    THEN CHOOSE i \in 1..Len(t) :
            t[i] = "-" /\ \A j \in (i + 1)..Len(t) : t[j] # "-"
    ELSE 0

BoardPart(t) == SubSeq(t, 1, LastDash(t) - 1)
RollPart(t) == SubSeq(t, LastDash(t) + 1, Len(t))

\* the digits of a text without its sign
Unsigned(p) == IF p # <<>> /\ Head(p) \in {"+", "-"} THEN Tail(p) ELSE p

\* a text is an integer: an optional sign and at least one digit
IsIntegerText(p) ==
    /\ Unsigned(p) # <<>>
    /\ \A i \in 1..Len(Unsigned(p)) : IsDigit(Unsigned(p)[i])

RECURSIVE NaturalOf(_)
NaturalOf(p) ==
    IF p = <<>> THEN 0
    ELSE 10 * NaturalOf(SubSeq(p, 1, Len(p) - 1)) + to_digit(p[Len(p)])

IntegerOf(p) ==
    IF Head(p) = "-" THEN 0 - NaturalOf(Unsigned(p)) ELSE NaturalOf(Unsigned(p))

\* the sum of the two dice a byte encodes
DiceSum(n) == ((n \div 32) % 8) + ((n \div 2) % 8)

\* the texts the parser has to reject
BadText(t) ==
    \/ LastDash(t) = 0
    \/ ~IsIntegerText(BoardPart(t))
    \/ ~IsIntegerText(RollPart(t))
    \/ IntegerOf(BoardPart(t)) > 511
    \/ IntegerOf(RollPart(t)) \notin 0..255
    \/ DiceSum(IntegerOf(RollPart(t))) \notin 2..12

(* C18: visit_str returns an error for every text without a dash, with a
   board or roll part that is no integer, with a board above 511 or with a
   roll byte whose dice sum is outside 2..12; when it returns a BoardRoll,
   none of these holds and the BoardRoll holds the integers of the text. *)
ParsingRejectsInvalidTexts ==
    spc = "parsed" =>
        /\ BadText(serde_text) => ~serde_result.ok
        /\ serde_result.ok =>
                /\ ~BadText(serde_text)
                /\ serde_result.value =
                        BoardRoll(IntegerOf(BoardPart(serde_text)),
                                  IntegerOf(RollPart(serde_text)))

\* the text 512-34, a valid roll after a board above 511, was rejected
WitnessBoardAboveLimitRejected ==
    /\ spc = "parsed"
    /\ serde_text = <<"5", "1", "2", "-", "3", "4">>
    /\ ~serde_result.ok
    /\ serde_result.error = "board cannot have a value above 511"

\* the ordered pairs of two six-sided dice that sum to v
DicePairs(v) == {d \in (1..6) \X (1..6) : d[1] + d[2] = v}

(* C19: of the 36 values of the drawn index, the number that make
   get_rand_roll return the roll of value v is the number of ordered pairs
   of dice summing to v, that is 1,2,3,4,5,6,5,4,3,2,1 for v = 2..12; every
   index is inside the table and every table entry inside the 11 rolls of
   the board. *)
RollTableFollowsTheDice ==
    built # NoBoard =>
        /\ Len(POSSIBLE_ROLLS_INDEXES) = RollTableLen
        /\ Len(built.rolls) = 11
        /\ \A index \in 0..(RollTableLen - 1) :
                POSSIBLE_ROLLS_INDEXES[index + 1] \in 0..(Len(built.rolls) - 1)
        /\ \A v \in 2..12 :
                Cardinality({index \in 0..(RollTableLen - 1) :
                                get_rand_roll(built, index).roll_value = v})
                    = Cardinality(DicePairs(v))
        /\ <<1, 2, 3, 4, 5, 6, 5, 4, 3, 2, 1>> =
                [k \in 1..11 |->
                    Cardinality({index \in 0..(RollTableLen - 1) :
                        get_rand_roll(built, index).roll_value = k + 1})]

\* on the full board the last slot of the table gives the roll 12 and six
\* slots give the roll 7
WitnessRollTableOnFullBoard ==
    /\ built # NoBoard
    /\ in_board = 511
    /\ get_rand_roll(built, RollTableLen - 1).roll_value = 12
    /\ Cardinality({index \in 0..(RollTableLen - 1) :
                        get_rand_roll(built, index).roll_value = 7}) = 6

(* C20: Roll::get_rand_board returns None exactly when the roll has no
   successor board; otherwise what it returns is a board of the roll's
   list, and every board of the list can be returned. *)
RandBoardIsNoneOrAnySuccessor ==
    built # NoBoard =>
        \A k \in 1..11 :
            LET roll == built.rolls[k]
                returned == Roll_get_rand_board(roll)
            IN /\ returned # {}
               /\ (None \in returned) <=> (Len(roll.boards) = 0)
               /\ Len(roll.boards) = 0 => returned = {None}
               /\ Len(roll.boards) > 0 => returned = Range(roll.boards)

\* on board 7 the roll 7 has no successor and gives None, the roll 3 has
\* two and gives either
WitnessNoneAndEitherSuccessor ==
    /\ built # NoBoard
    /\ in_board = 7
    /\ Roll_get_rand_board(built.rolls[6]) = {None}
    /\ Roll_get_rand_board(built.rolls[2]) = {3, 4}

(* C21: the board table has exactly 512 entries; the entry at index i has
   the raw board i and 11 rolls, the k-th (k = 0..10) of value k + 2 and
   holding the boards reached from i by clearing alive pieces that sum to
   k + 2; get_board(i) is None exactly for i >= 512 and the entry i
   otherwise. *)
TableHoldsEveryBoard ==
    /\ \A i \in 0..(Len(possible_boards) - 1) :
            /\ possible_boards[i + 1].board = i
            /\ Len(possible_boards[i + 1].rolls) = 11
            /\ \A k \in 0..10 :
                    possible_boards[i + 1].rolls[k + 1].roll_value = k + 2
    /\ BOARDS # NoTable =>
            /\ Len(BOARDS) = 512
            /\ BOARDS = possible_boards
    /\ (BOARDS # NoTable /\ get_arg = None) =>
            \A i \in 0..511 :
                \A k \in 0..10 :
                    Range(BOARDS[i + 1].rolls[k + 1].boards) =
                        {i - MaskOf(S) :
                            S \in {T \in SUBSET AlivePieces(i) :
                                     T # {} /\ SetSum(T) = k + 2}}
    /\ get_arg # None =>
            /\ (got = NoBoard) <=> (get_arg >= 512)
            /\ get_arg < 512 => got = BOARDS[get_arg + 1]
            /\ got = get_board(get_arg)

\* the table was set and get_board(512), one past its last entry, gave None
WitnessGetPastTheTable ==
    /\ BOARDS # NoTable
    /\ BOARDS[BoardCount].board = 511
    /\ get_arg = BoardCount
    /\ got = NoBoard

(* C22 (as claimed): the board table is fully built before any worker
   thread is in its simulation loop. *)
TableBuiltBeforeWorkersLoop ==
    \A t \in 1..threads :
        (workers[t].state = "running" /\ workers[t].played < games_to_play)
            => BOARDS # NoTable

(* C22 (amended): the board table is fully built before any worker has
   simulated a game, the first worker to ask for a board building it inside
   its loop; once built, no entry of it changes. *)
TableBuiltBeforeAnyGame ==
    /\ [](\A t \in 1..threads :
            workers[t].played > 0 =>
                /\ BOARDS # NoTable
                /\ Len(BOARDS) = MaxStartBoard + 1
                /\ \A index \in 1..Len(BOARDS) :
                        /\ BOARDS[index].board = index - 1
                        /\ Len(BOARDS[index].rolls) = 11)
    /\ [][BOARDS # NoTable => BOARDS' = BOARDS]_vars

\* two workers have each simulated a game on the table one of them built
WitnessBothWorkersPlayed ==
    /\ threads = 2
    /\ BOARDS # NoTable
    /\ \A t \in 1..threads : workers[t].played = 1

(* C23: a step that changes a worker's map is a game of that worker alone:
   it plays one more pair, no other worker and not the main map change; a
   worker sends once, after exactly games_to_play pairs, the map it holds,
   and changes nothing afterwards; the main map changes only by the merge
   of a received map. *)
WorkersOwnTheirMaps ==
    [][/\ \A t \in 1..threads :
            workers'[t].win_weights # workers[t].win_weights =>
                /\ workers[t].state = "running"
                /\ workers'[t].state = "running"
                /\ workers'[t].played = workers[t].played + 1
                /\ workers'[t].played <= games_to_play
                /\ \A u \in 1..threads : u # t => workers'[u] = workers[u]
                /\ win_weights' = win_weights
                /\ chan' = chan
       /\ \A t \in 1..threads :
            (workers[t].state # "sent" /\ workers'[t].state = "sent") =>
                /\ workers[t].played = games_to_play
                /\ chan' = Append(chan, workers[t].win_weights)
                /\ win_weights' = win_weights
       /\ \A t \in 1..threads :
            workers[t].state = "sent" => workers'[t] = workers[t]
       /\ Len(chan') > Len(chan) =>
            \E t \in 1..threads :
                workers[t].state = "running" /\ workers'[t].state = "sent"
       /\ win_weights' # win_weights =>
            /\ chan # <<>>
            /\ win_weights' = merge_thread_map(Head(chan), win_weights)
            /\ chan' = Tail(chan)
            /\ finished_threads' = finished_threads + 1
            /\ workers' = workers
      ]_vars

\* both workers have played their pair and sent, and both maps were merged
\* into a main map that is not empty
WitnessBothWorkersSentAndMerged ==
    /\ threads = 2
    /\ games_to_play = 1
    /\ \A t \in 1..threads :
            workers[t].state = "sent" /\ workers[t].played = 1
    /\ finished_threads = 2
    /\ cpc = "main"
    /\ win_weights # <<>>

\* a sequence of Choices is a chain from a board to a dying Choice
IsChain(moves, from_board) ==
    /\ moves # <<>>
    /\ moves[1].root_board = from_board
    /\ \A i \in 1..Len(moves) :
            /\ moves[i].roll \in 2..12
            /\ is_dying_choice(moves[i]) <=> i = Len(moves)
            /\ i < Len(moves) => moves[i + 1].root_board = moves[i].chosen_board

(* C24: every move sequence rand returns is a chain: its first Choice has
   the start board as root, a Choice with successor Some(s) is followed by
   a Choice of root s, every rolled value is in 2..12 and the last Choice,
   and only it, has successor None. *)
MovesFormAChain ==
    /\ first_game # NoGame => IsChain(first_game.moves, start)
    /\ second_game # NoGame => IsChain(second_game.moves, start)
    /\ pc = "scored" =>
            /\ IsChain(first.moves, start)
            /\ IsChain(second.moves, start)
    /\ (pc \in {"one", "two"} /\ choices # <<>>) =>
            /\ choices[1].root_board = start
            /\ choices[Len(choices)].chosen_board = cur
            /\ \A i \in 1..(Len(choices) - 1) :
                    choices[i + 1].root_board = choices[i].chosen_board

\* a pair of games was returned, one of three Choices and one of two
WitnessChainsOfThreeAndTwo ==
    /\ pc = "scored"
    /\ Len(first.moves) = 3
    /\ Len(second.moves) = 2

(* C25: the two games of a pair are both scored DRAW (500) exactly when
   their final values are equal; otherwise one is WIN and the other LOSS;
   in both cases the two scores sum to 1000. *)
PairIsDrawOrWinAndLoss ==
    pc = "scored" =>
        /\ first.result \in {WIN, DRAW, LOSS}
        /\ second.result \in {WIN, DRAW, LOSS}
        /\ (first_game.value = second_game.value) <=>
                (first.result = DRAW /\ second.result = DRAW)
        /\ (first_game.value # second_game.value) <=>
                ({first.result, second.result} = {WIN, LOSS})
        /\ first.result + second.result = 1000

\* two games that made different moves ended on equal values: a draw
WitnessDrawOfDifferentGames ==
    /\ pc = "scored"
    /\ first.moves # second.moves
    /\ first_game.value = second_game.value
    /\ first.result = DRAW
    /\ second.result = DRAW

\* s is reached from board by clearing alive pieces that sum to roll
LegalMove(board, roll, s) ==
    /\ ProperSubmask(s, board)
    /\ SetSum(AlivePieces(board) \ AlivePieces(s)) = roll
    /\ s \in Range(Roll_new(roll, board).boards)

(* C26: every value of the output mapping is a legal move: the successor
   recorded for a key (board, roll) is in the successor list enumerated for
   that board and roll, so it is a proper submask of the board whose
   cleared pieces sum to the roll. *)
OutputHoldsLegalMoves ==
    /\ cpc \in {"reduce", "done"} =>
            \A key \in DOMAIN choice_map :
                LegalMove(key.board, key.roll, choice_map[key])
    /\ file.written =>
            \A key \in DOMAIN file.data :
                LegalMove(key.board, key.roll, file.data[key])

\* the written mapping holds a move for the full start board 7 and roll 3
\* and one for a board reached from it
WitnessMovesOfBoardSeven ==
    /\ file.written
    /\ BoardRoll(7, 3) \in DOMAIN file.data
    /\ file.data[BoardRoll(7, 3)] = 4
    /\ BoardRoll(4, 3) \in DOMAIN file.data

\* the map the claim describes after a game of score v on the map base
UpdatedOnce(moves, v, base) ==
    [choice \in DOMAIN base \cup LivingMoves(moves) |->
        IF choice \notin LivingMoves(moves) THEN base[choice]
        ELSE IF choice \in DOMAIN base
             THEN Weight(base[choice].total + v, base[choice].used + 1)
             ELSE Weight(v, 1)]

(* C27: update_weights for a game of score v gives every non-dying Choice
   of the game total + v and count + 1, or creates it as (v, 1), leaves
   every other entry of the map as it was, and updates no entry twice: a
   game holds no Choice twice. *)
UpdateWeightsAddsEachMoveOnce ==
    pc = "scored" =>
        LET after_first == update_weights(first.moves, first.result, <<>>)
            after_second == update_weights(second.moves, second.result, after_first)
        IN /\ after_first = UpdatedOnce(first.moves, first.result, <<>>)
           /\ after_second = UpdatedOnce(second.moves, second.result, after_first)
           /\ \A i, j \in 1..Len(first.moves) :
                    first.moves[i] = first.moves[j] => i = j
           /\ \A i, j \in 1..Len(second.moves) :
                    second.moves[i] = second.moves[j] => i = j

\* the second game made the two moves of the first: both entries were
\* incremented
WitnessSecondGameIncrements ==
    /\ pc = "scored"
    /\ Len(first.moves) = 3
    /\ second.moves = first.moves
    /\ update_weights(second.moves, second.result,
            update_weights(first.moves, first.result, <<>>))[first.moves[1]]
                = Weight(1000, 2)

(* C28: every Weight of a worker map, of a map in the channel and of the
   merged map has used >= 1 and total <= 1000 * used: calculate divides by
   a positive count, and its quotient is in 0..1000 and survives the cast
   to u16. *)
WeightsAverageWithinScores ==
    \A weights \in AllWeightMaps :
        \A choice \in DOMAIN weights :
            /\ weights[choice].used >= 1
            /\ weights[choice].total <= WIN * weights[choice].used
            /\ calculate(weights[choice])
                    = weights[choice].total \div weights[choice].used
            /\ calculate(weights[choice]) \in 0..WIN

\* two workers won with the same move: its merged weight is at the bound
WitnessMergedWeightAtTheBound ==
    /\ finished_threads = 2
    /\ \E choice \in DOMAIN win_weights :
            win_weights[choice] = Weight(2 * WIN, 2)

\* the pairs of dice the loops of get_rolls have stored
StoredPairs ==
    {pair \in (1..6) \X (1..6) :
        pair[1] < loop_one \/ (pair[1] = loop_one /\ pair[2] < loop_two)}

(* C29: for dice d1, d2 in 1..6 the roll new_dual(d1, d2) is valid and
   get_value gives d1 + d2; DiceRoll::from(v) is valid and decodes to v
   for v in 2..12, and from(1) decodes to 1 and is not valid; the table of
   get_rolls holds new_dual(one, two) at index (one - 1) * 6 + (two - 1). *)
DiceRollCodec ==
    /\ (dice_call.fn = "new_dual"
            /\ dice_call.one \in 1..6 /\ dice_call.two \in 1..6) =>
            /\ DiceRoll_get_value(dice_roll) = dice_call.one + dice_call.two
            /\ DiceRoll_is_valid(dice_roll)
    /\ dice_call.fn = "from" =>
            /\ DiceRoll_get_value(dice_roll) = dice_call.value
            /\ DiceRoll_is_valid(dice_roll) <=> dice_call.value \in 2..12
    /\ dual_rolls # <<>> =>
            \A pair \in StoredPairs :
                LET stored == dual_rolls[(pair[1] - 1) * 6 + (pair[2] - 1) + 1]
                IN /\ stored = DiceRoll_new_dual(pair[1], pair[2])
                   /\ stored = pair[1] * 32 + pair[2] * 2

\* the table of get_rolls is complete and from(1) was called
WitnessTableFilledAndFromOne ==
    /\ loop_one = 7
    /\ dual_rolls[1] = 34
    /\ dual_rolls[RollTableLen] = 204
    /\ dice_call = [fn |-> "from", value |-> 1]
    /\ dice_roll = 32

\* the encodings of the 36 pairs of dice
DicePairBytes == {DiceRoll_new_dual(one, two) : one \in 1..6, two \in 1..6}

(* C30: every roll accepted by the parsing of a BoardRoll is the encoding
   new_dual(d1, d2) of two dice d1, d2 in 1..6, so that two accepted keys
   of the same board and the same two dice are equal. *)
AcceptedRollsAreDicePairs ==
    (spc = "parsed" /\ serde_result.ok) =>
        serde_result.value.roll \in DicePairBytes

(* C31: when several threads call get_boards before the table exists, the
   initialiser runs once, every caller is handed the one table of 512
   boards, which never changes once set, and no caller is handed a table
   that is still being built. *)
TableInitialisedOnceForAllCallers ==
    /\ [](/\ init_runs <= 1
          /\ \A t \in DOMAIN callers :
                callers[t].at = "returned" =>
                    /\ once_state = "complete"
                    /\ callers[t].len = BoardCount
                    /\ Len(BOARDS) = BoardCount
                    /\ \A index \in 1..BoardCount :
                            BOARDS[index].board = index - 1)
    /\ [][BOARDS # NoTable => BOARDS' = BOARDS]_vars

\* one caller built the table while the other was blocked, and both returned
WitnessBlockedCallerReturned ==
    /\ DOMAIN callers = 1..2
    /\ callers[1] = Caller("returned", FALSE, BoardCount)
    /\ callers[2] = Caller("returned", TRUE, BoardCount)
    /\ init_runs = 1
    /\ BOARDS[BoardCount].board = BoardCount - 1

(* C32: when every thread is scheduled fairly and no worker fails, a run of
   compute_weights completes: every worker has sent its map, the main
   thread has received one map per thread and the reduction has ended with
   the file written. *)
RunCompletesUnlessAWorkerFails ==
    \/ <>(\E t \in DOMAIN workers : workers[t].state = "panicked")
    \/ <>(/\ cpc = "done"
          /\ file.written
          /\ finished_threads = threads
          /\ chan = <<>>
          /\ \A t \in DOMAIN workers : workers[t].state = "sent")

\* a run of two workers of one pair of games each has completed
WitnessRunOfTwoWorkersCompleted ==
    /\ cpc = "done"
    /\ threads = 2
    /\ games_to_play = 1
    /\ \A t \in DOMAIN workers :
            workers[t].state = "sent" /\ workers[t].played = 1
    /\ finished_threads = 2
    /\ DOMAIN file.data # {}

(* C33: with a thread count of 0, or with games_to_play 0, compute_weights
   neither blocks nor fails: no thread unwinds, the run reaches its end,
   and the mapping written is empty. *)
ZeroThreadsOrGamesWritesEmptyOutput ==
    (threads = 0 \/ games_to_play = 0) =>
        /\ [](/\ cpc # "panicked"
              /\ \A t \in DOMAIN workers : workers[t].state # "panicked"
              /\ file.written => file.data = <<>>)
        /\ <>(cpc = "done" /\ file.written /\ file.data = <<>>)

\* two workers that played no game have sent their empty maps, and the
\* empty mapping is written
WitnessTwoIdleWorkersDone ==
    /\ threads = 2
    /\ games_to_play = 0
    /\ finished_threads = 2
    /\ \A t \in DOMAIN workers : workers[t].state = "sent"
    /\ cpc = "done"
    /\ file.written
    /\ file.data = <<>>

\* the connections of to_accept at the last register_client for which
\* try_recv gave one of the outcomes
PolledWith(outcomes) ==
    {polled[i].id : i \in {j \in 1..Len(polled) : polled[j].outcome \in outcomes}}

(* C34: when register_client is over, for any number of pending clients
   and any messages polled: every pending client that sent OptInForPlaying
   was sent OptInAccept and is registered, every pending client that sent
   another or a malformed packet was sent OptInDeny and is dropped, every
   pending client without a message is still pending, and the call has not
   panicked. *)
RegisterClientSortsEveryPendingClient ==
    net_step \in {"ready", "panicked"} =>
        /\ net_step # "panicked"
        /\ \A id \in PolledWith({"OptInForPlaying"}) :
                /\ OptInAccept \in Range(outbox[id])
                /\ id \in Range(clients)
                /\ id \notin Range(to_accept)
        /\ \A id \in PolledWith({"ReadyForStart", "BadPacket"}) :
                /\ OptInDeny \in Range(outbox[id])
                /\ id \notin Range(clients)
                /\ id \notin Range(to_accept)
        /\ \A id \in PolledWith({"Empty"}) :
                /\ outbox[id] = <<>>
                /\ id \notin Range(clients)
                /\ id \in Range(to_accept)

\* the PlayersConnected messages sent to a connection, in order
RECURSIVE ConnectedCounts(_)
ConnectedCounts(messages) ==
    IF messages = <<>> THEN <<>>
    ELSE (IF Head(messages).msg = "PlayersConnected"
          THEN <<Head(messages).n>> ELSE <<>>)
         \o ConnectedCounts(Tail(messages))

(* C35: clients_ready sends PlayersConnected(n) to the registered clients
   only when n differs from the count of the previous broadcast: no client
   is sent the same count twice in a row, so iterations of the loop with an
   unchanged set of clients send no further PlayersConnected. *)
PlayersConnectedOnlyOnChange ==
    \A id \in Range(clients) :
        LET counts == ConnectedCounts(outbox[id])
        IN \A i \in 1..(Len(counts) - 1) : counts[i] # counts[i + 1]

\* the byte sequences of a stream that end with an ETX, in order
RECURSIVE Frames(_, _)
Frames(bytes, current) ==
    IF bytes = <<>> THEN <<>>
    ELSE IF Head(bytes) = ETX
         THEN <<current>> \o Frames(Tail(bytes), <<>>)
         ELSE Frames(Tail(bytes), Append(current, Head(bytes)))

\* every message sent by the reading thread is the byte sequence between
\* two consecutive ETX bytes of the stream
DeliveredAreFrames ==
    LET packets == SelectSeq(read_channel, LAMBDA sent : sent.kind = "packet")
        frames == Frames(wire, <<>>)
    IN /\ Len(packets) <= Len(frames)
       /\ \A i \in 1..Len(packets) : packets[i].message = frames[i]

(* C36: once the peer has closed the connection or the receiver of the
   read channel is dropped, the reading thread eventually ends; and every
   message it delivers is the byte sequence between two consecutive ETX
   bytes. *)
ReaderEndsAndDeliversFrames ==
    /\ []DeliveredAreFrames
    /\ (peer \in {"closed", "reset"} \/ read_receiver = "dropped")
            ~> (reading = "ended")

====
